---- MODULE Spec2Model ----
(***************************************************************************)
(* Verification model of the stellar-poker repository.                     *)
(*                                                                         *)
(*  - the poker-table ledger contract (hand state machine): Spec           *)
(*  - one MPC node's proof-session registry: SpecNode                      *)
(*  - the coordinator's deal / reveal / showdown workflow over the nodes:  *)
(*    SpecOrch                                                             *)
(*                                                                         *)
(* Seats, turns and dealer positions are 0-based as in the Rust source;    *)
(* the player sequence is a TLA+ sequence, so seat i is players[i + 1].    *)
(***************************************************************************)
EXTENDS Integers, Sequences, FiniteSets, TLC

VARIABLES
    table,      \* the stored TableState of the one table (persistent storage)
    escrow,     \* token balance the contract holds for the table
    ledger,     \* env.ledger().sequence()
    last,       \* the last call that returned Ok, or the last rejected player_action
    sessions,   \* node: NodeState.sessions, session id -> MpcSessionState
    tasks,      \* node: the background generation tasks spawned and not yet finished
    node_event, \* node: the last HTTP response sent, or the last task finished
    coord,      \* coordinator: AppState.tables[table_id], the TableSession
    workers,    \* each node's PrivateTableState for the table
    response,   \* coordinator: the last HTTP response sent
    attempts,   \* prepare fan-outs run so far (names the share-sets of each)
    txs,        \* ledger transactions submitted so far (names the tx hashes)
    configured, \* coordinator: SorobanConfig::is_configured()
    issued,     \* coordinator: the proof-session ids issued so far
    tables_lock, \* coordinator: who holds the RwLock around AppState.tables
    pc,         \* coordinator: the position of each handler running as a task
    hands,      \* the two 7-card hands of a showdown, <<>> when none is compared
    ranked,     \* the scores the two evaluators gave to the hands
    deals,      \* coordinator: each request_deal call in flight, by its position
    dispatches, \* node: each dispatch-shares call in flight, by its position
    deliveries, \* node: per share-set, the deliveries completed and the calls answered OK
    collect,    \* coordinator: the proof wait of one trigger_and_collect_proof call
    lookup      \* coordinator: one resolve_hole_cards call, its inputs and its result

----------------------------------------------------------------------------
(* Bounds of the model *)

NumAddrs == 3       \* player addresses that may call the contract
MaxHands == 1       \* hands started on the table
MaxLedger == 1      \* ledger sequence numbers 0..MaxLedger
MaxAmount == 2      \* Bet / Raise amounts tried: 1..MaxAmount
NumLeavers == 1     \* addresses 1..NumLeavers may call leave_table
MaxParties == 2     \* node: source parties 0..MaxParties - 1 send fragments
MaxTasks == 2       \* node: generation tasks running at the same time
NumWorkers == 2     \* coordinator: MPC nodes 0..NumWorkers - 1
MaxAttempts == 2    \* coordinator: prepare fan-outs run
MaxFanouts == 5     \* coordinator on the ledger: prepare fan-outs run
MaxIssues == 7      \* coordinator, hand after hand: prepare fan-outs run
MaxRounds == 2      \* hands started on a table that is played hand after hand

----------------------------------------------------------------------------
(* Table configuration (TableConfig, fixed at create_table) *)

config ==
    [ min_buy_in      |-> 2,
      max_buy_in      |-> 3,
      small_blind     |-> 1,
      big_blind       |-> 2,
      max_players     |-> 3,
      timeout_ledgers |-> 1,
      committee       |-> "committee" ]

Addresses == 1..NumAddrs
Callers == {"committee", "other"}

BettingPhases == {"Preflop", "Flop", "Turn", "River"}

ActionSet ==
    {[kind |-> k, amount |-> 0] : k \in {"Fold", "Check", "Call", "AllIn"}}
    \cup {[kind |-> k, amount |-> a] : k \in {"Bet", "Raise"}, a \in 1..MaxAmount}

Ok(t) == [ok |-> TRUE, err |-> "", table |-> t]
Err(e, t) == [ok |-> FALSE, err |-> e, table |-> t]

MinOf(S) == CHOOSE x \in S : \A y \in S : x <= y
MaxOf(S) == CHOOSE x \in S : \A y \in S : x >= y
MinI(a, b) == IF a < b THEN a ELSE b

RECURSIVE SumSeq(_)
SumSeq(s) == IF s = <<>> THEN 0 ELSE Head(s) + SumSeq(Tail(s))

----------------------------------------------------------------------------
(* Vec<PlayerState> accessors *)

NumPlayers(t) == Len(t.players)
GetP(t, i) == t.players[i + 1]
SetP(t, i, p) == [t EXCEPT !.players[i + 1] = p]

NewPlayer(player, buy_in, seat) ==
    [ address        |-> player,
      stack          |-> buy_in,
      bet_this_round |-> 0,
      folded         |-> FALSE,
      all_in         |-> FALSE,
      seat_index     |-> seat ]

(* create_table: the table as first stored *)
create_table ==
    [ phase              |-> "Waiting",
      players            |-> <<>>,
      dealer_seat        |-> 0,
      current_turn       |-> 0,
      pot                |-> 0,
      deck_root          |-> 0,
      hand_commitments   |-> <<>>,
      board_cards        |-> <<>>,
      dealt_indices      |-> <<>>,
      hand_number        |-> 0,
      last_action_ledger |-> 0 ]

----------------------------------------------------------------------------
(* game.rs *)

active_player_count(t) ==
    Cardinality({i \in 1..Len(t.players) : ~t.players[i].folded})

(* Some(seat_index) of the first non-folded player, or -1 for None *)
last_player_standing(t) ==
    IF active_player_count(t) # 1 THEN -1
    ELSE t.players[MinOf({i \in 1..Len(t.players) : ~t.players[i].folded})].seat_index

settle_fold_win(t, now) ==
    LET winner_seat == last_player_standing(t) IN
    IF winner_seat = -1 THEN Ok(t)
    ELSE IF winner_seat >= NumPlayers(t) THEN Err("InvalidPlayerIndex", t)
    ELSE LET winner == GetP(t, winner_seat) IN
         Ok([SetP(t, winner_seat, [winner EXCEPT !.stack = @ + t.pot])
                EXCEPT !.pot = 0,
                       !.phase = "Settlement",
                       !.last_action_ledger = now])

(* post_blind that caps the blind at the stack and marks nobody all-in *)
post_blind_unmarked(t, seat, amount) ==
    LET player == GetP(t, seat)
        actual == IF player.stack < amount THEN player.stack ELSE amount
    IN [SetP(t, seat, [player EXCEPT !.stack = @ - actual,
                                     !.bet_this_round = actual])
           EXCEPT !.pot = @ + actual]

(* post_blind that takes the whole blind from a short stack *)
post_blind_uncapped(t, seat, amount) ==
    LET player == GetP(t, seat)
        short  == player.stack < amount
    IN [SetP(t, seat, [player EXCEPT !.all_in = IF short THEN TRUE ELSE @,
                                     !.stack = @ - amount,
                                     !.bet_this_round = amount])
           EXCEPT !.pot = @ + amount]

post_blind(t, seat, amount) ==
    LET player == GetP(t, seat)
        short  == player.stack < amount
        actual == IF short THEN player.stack ELSE amount
    IN [SetP(t, seat, [player EXCEPT !.all_in = IF short THEN TRUE ELSE @,
                                     !.stack = @ - actual,
                                     !.bet_this_round = actual])
           EXCEPT !.pot = @ + actual]

start_new_hand(t, now) ==
    LET t1 == [t EXCEPT !.hand_number = @ + 1]
        num_players == NumPlayers(t)
    IN
    IF num_players < 2 THEN Err("NeedAtLeastTwoPlayers", t1)
    ELSE
    LET dealer  == (t.dealer_seat + 1) % num_players
        t2 == [t1 EXCEPT !.dealer_seat = dealer,
                         !.players = [i \in 1..num_players |->
                                        [t.players[i] EXCEPT !.folded = FALSE,
                                                             !.all_in = FALSE,
                                                             !.bet_this_round = 0]]]
        sb_seat == (dealer + 1) % num_players
        bb_seat == (dealer + 2) % num_players
        t3 == post_blind(t2, sb_seat, config.small_blind)
        t4 == post_blind(t3, bb_seat, config.big_blind)
    IN Ok([t4 EXCEPT !.board_cards = <<>>,
                     !.dealt_indices = <<>>,
                     !.hand_commitments = <<>>,
                     !.phase = "Dealing",
                     !.last_action_ledger = now])

----------------------------------------------------------------------------
(* betting.rs *)

(* Ok(seat_index) of the first entry holding the address, or -1 for
   Err(PlayerNotAtTable) *)
find_player_seat(t, player) ==
    LET at == {i \in 1..Len(t.players) : t.players[i].address = player} IN
    IF at = {} THEN -1 ELSE t.players[MinOf(at)].seat_index

max_bet_this_round(t) ==
    MaxOf({0} \cup {t.players[i].bet_this_round : i \in 1..Len(t.players)})

(* is_round_complete without the exemption of all-in players *)
is_round_complete_no_all_in(t) ==
    \A i \in 1..Len(t.players) :
        \/ t.players[i].folded
        \/ t.players[i].bet_this_round = max_bet_this_round(t)

is_round_complete(t) ==
    LET current_bet == max_bet_this_round(t) IN
    \A i \in 1..Len(t.players) :
        \/ t.players[i].folded
        \/ t.players[i].all_in
        \/ t.players[i].bet_this_round = current_bet

(* advance_to_next_phase returning to the betting round it came from *)
advance_to_next_phase_back(t, now) ==
    IF active_player_count(t) = 1 THEN settle_fold_win(t, now)
    ELSE IF t.phase \notin BettingPhases THEN Ok(t)
    ELSE Ok([t EXCEPT !.phase = CASE t.phase = "Preflop" -> "DealingFlop"
                                  [] t.phase = "Flop"    -> "Preflop"
                                  [] t.phase = "Turn"    -> "DealingRiver"
                                  [] t.phase = "River"   -> "Showdown",
                      !.last_action_ledger = now])

advance_to_next_phase(t, now) ==
    IF active_player_count(t) = 1 THEN settle_fold_win(t, now)
    ELSE IF t.phase \notin BettingPhases THEN Ok(t)
    ELSE Ok([t EXCEPT !.phase = CASE t.phase = "Preflop" -> "DealingFlop"
                                  [] t.phase = "Flop"    -> "DealingTurn"
                                  [] t.phase = "Turn"    -> "DealingRiver"
                                  [] t.phase = "River"   -> "Showdown",
                      !.last_action_ledger = now])

(* The seat scans of advance_turn, reset_round and process_timeout: at most k
   more seats are looked at, starting with `seat`; the scan stops at the first
   seat that is neither folded nor all-in. *)
RECURSIVE scan_seats(_, _, _)
scan_seats(t, seat, k) ==
    IF k = 0 THEN [found |-> FALSE, seat |-> seat]
    ELSE IF ~GetP(t, seat).folded /\ ~GetP(t, seat).all_in
         THEN [found |-> TRUE, seat |-> seat]
         ELSE scan_seats(t, (seat + 1) % NumPlayers(t), k - 1)

advance_turn(t, now) ==
    LET num_players == NumPlayers(t) IN
    IF num_players = 0 THEN Err("NeedAtLeastTwoPlayers", t)
    ELSE LET next == scan_seats(t, (t.current_turn + 1) % num_players, num_players).seat IN
         IF is_round_complete(t) THEN advance_to_next_phase(t, now)
         ELSE Ok([t EXCEPT !.current_turn = next])

(* reset_round whose scan starts at the dealer's own seat *)
reset_round_from_dealer(t, now) ==
    LET num_players == NumPlayers(t)
        t1 == [t EXCEPT !.players = [i \in 1..num_players |->
                                        [t.players[i] EXCEPT !.bet_this_round = 0]]]
    IN
    IF num_players = 0 THEN Err("NeedAtLeastTwoPlayers", t1)
    ELSE LET s == scan_seats(t1, t1.dealer_seat % num_players, num_players) IN
         IF s.found THEN Ok([t1 EXCEPT !.current_turn = s.seat])
         ELSE advance_to_next_phase(t1, now)

reset_round(t, now) ==
    LET num_players == NumPlayers(t)
        t1 == [t EXCEPT !.players = [i \in 1..num_players |->
                                        [t.players[i] EXCEPT !.bet_this_round = 0]]]
    IN
    IF num_players = 0 THEN Err("NeedAtLeastTwoPlayers", t1)
    ELSE LET s == scan_seats(t1, (t1.dealer_seat + 1) % num_players, num_players) IN
         IF s.found THEN Ok([t1 EXCEPT !.current_turn = s.seat])
         ELSE advance_to_next_phase(t1, now)

(* Call, Bet, Raise and AllIn all end by moving `amount` chips from the
   player's stack to the bet and the pot *)
commit_chips(t, seat, p, amount, force_all_in) ==
    LET p1 == [p EXCEPT !.stack = @ - amount,
                        !.bet_this_round = @ + amount,
                        !.all_in = IF force_all_in \/ p.stack - amount = 0 THEN TRUE ELSE @]
    IN [SetP(t, seat, p1) EXCEPT !.pot = @ + amount]

(* the match on the action with a Raise that compares only the raise amount,
   not the call it includes, with the stack *)
apply_action_raise_over_stack(t, seat, p, action, now) ==
    LET current_bet == max_bet_this_round(t)
        to_call     == current_bet - p.bet_this_round
    IN
    CASE action.kind = "Fold" ->
            LET t1 == SetP(t, seat, [p EXCEPT !.folded = TRUE]) IN
            IF active_player_count(t1) = 1
            THEN [res |-> settle_fold_win(t1, now), done |-> TRUE]
            ELSE [res |-> Ok(t1), done |-> FALSE]
      [] action.kind = "Check" ->
            IF p.bet_this_round # current_bet
            THEN [res |-> Err("MustCallOrFold", t), done |-> TRUE]
            ELSE [res |-> Ok(t), done |-> FALSE]
      [] action.kind = "Call" ->
            IF to_call <= 0
            THEN [res |-> Err("NothingToCall", t), done |-> TRUE]
            ELSE [res |-> Ok(commit_chips(t, seat, p, MinI(to_call, p.stack), FALSE)),
                  done |-> FALSE]
      [] action.kind = "Bet" ->
            IF current_bet # 0
            THEN [res |-> Err("CannotBetWhenOutstandingBet", t), done |-> TRUE]
            ELSE IF action.amount < config.big_blind
            THEN [res |-> Err("BetTooSmall", t), done |-> TRUE]
            ELSE IF action.amount > p.stack
            THEN [res |-> Err("NotEnoughChips", t), done |-> TRUE]
            ELSE [res |-> Ok(commit_chips(t, seat, p, action.amount, FALSE)),
                  done |-> FALSE]
      [] action.kind = "Raise" ->
            IF action.amount < config.big_blind
            THEN [res |-> Err("RaiseTooSmall", t), done |-> TRUE]
            ELSE IF action.amount > p.stack
            THEN [res |-> Err("NotEnoughChips", t), done |-> TRUE]
            ELSE [res |-> Ok(commit_chips(t, seat, p, to_call + action.amount, FALSE)),
                  done |-> FALSE]
      [] action.kind = "AllIn" ->
            [res |-> Ok(commit_chips(t, seat, p, p.stack, TRUE)), done |-> FALSE]

(* The match on the action: the table after the action and whether the hand
   was settled by the fold (`done`: process_action returns before the turn
   advances). *)
apply_action(t, seat, p, action, now) ==
    LET current_bet == max_bet_this_round(t)
        to_call     == current_bet - p.bet_this_round
    IN
    CASE action.kind = "Fold" ->
            LET t1 == SetP(t, seat, [p EXCEPT !.folded = TRUE]) IN
            IF active_player_count(t1) = 1
            THEN [res |-> settle_fold_win(t1, now), done |-> TRUE]
            ELSE [res |-> Ok(t1), done |-> FALSE]
      [] action.kind = "Check" ->
            IF p.bet_this_round # current_bet
            THEN [res |-> Err("MustCallOrFold", t), done |-> TRUE]
            ELSE [res |-> Ok(t), done |-> FALSE]
      [] action.kind = "Call" ->
            IF to_call <= 0
            THEN [res |-> Err("NothingToCall", t), done |-> TRUE]
            ELSE [res |-> Ok(commit_chips(t, seat, p, MinI(to_call, p.stack), FALSE)),
                  done |-> FALSE]
      [] action.kind = "Bet" ->
            IF current_bet # 0
            THEN [res |-> Err("CannotBetWhenOutstandingBet", t), done |-> TRUE]
            ELSE IF action.amount < config.big_blind
            THEN [res |-> Err("BetTooSmall", t), done |-> TRUE]
            ELSE IF action.amount > p.stack
            THEN [res |-> Err("NotEnoughChips", t), done |-> TRUE]
            ELSE [res |-> Ok(commit_chips(t, seat, p, action.amount, FALSE)),
                  done |-> FALSE]
      [] action.kind = "Raise" ->
            IF action.amount < config.big_blind
            THEN [res |-> Err("RaiseTooSmall", t), done |-> TRUE]
            ELSE IF to_call + action.amount > p.stack
            THEN [res |-> Err("NotEnoughChips", t), done |-> TRUE]
            ELSE [res |-> Ok(commit_chips(t, seat, p, to_call + action.amount, FALSE)),
                  done |-> FALSE]
      [] action.kind = "AllIn" ->
            [res |-> Ok(commit_chips(t, seat, p, p.stack, TRUE)), done |-> FALSE]

process_action(t, player, action, now) ==
    LET seat == find_player_seat(t, player) IN
    IF seat = -1 THEN Err("PlayerNotAtTable", t)
    ELSE IF seat # t.current_turn THEN Err("NotYourTurn", t)
    ELSE IF seat >= NumPlayers(t) THEN Err("InvalidPlayerIndex", t)
    ELSE LET p == GetP(t, seat) IN
         IF p.folded THEN Err("PlayerAlreadyFolded", t)
         ELSE IF p.all_in THEN Err("PlayerAlreadyAllIn", t)
         ELSE LET a == apply_action(t, seat, p, action, now) IN
              IF a.done \/ ~a.res.ok THEN a.res
              ELSE advance_turn([a.res.table EXCEPT !.last_action_ledger = now], now)

----------------------------------------------------------------------------
(* timeout.rs *)

(* emergency_refund without the remainder of the integer division *)
emergency_refund_no_remainder(t) ==
    LET active == active_player_count(t) IN
    IF active = 0 THEN Ok(t)
    ELSE
    LET share == t.pot \div active IN
    Ok([t EXCEPT !.players = [i \in 1..Len(t.players) |->
                                IF t.players[i].folded THEN t.players[i]
                                ELSE [t.players[i] EXCEPT !.stack = @ + share]],
                 !.pot = 0, !.phase = "Settlement"])

emergency_refund(t) ==
    LET active == active_player_count(t) IN
    IF active = 0 THEN Ok(t)
    ELSE
    LET n == Len(t.players)
        share == t.pot \div active
        distributed == share * active
        remainder == t.pot - distributed
        first == MinOf({i \in 1..n : ~t.players[i].folded})
        paid == [i \in 1..n |->
                    IF t.players[i].folded THEN t.players[i]
                    ELSE [t.players[i] EXCEPT !.stack =
                            @ + share + (IF remainder > 0 /\ i = first THEN remainder ELSE 0)]]
    IN Ok([t EXCEPT !.players = paid, !.pot = 0, !.phase = "Settlement"])

process_timeout(t, now) ==
    LET elapsed == now - t.last_action_ledger IN
    IF elapsed < config.timeout_ledgers THEN Err("TimeoutNotReached", t)
    ELSE IF t.phase \in BettingPhases THEN
        LET seat == t.current_turn IN
        IF seat >= NumPlayers(t) THEN Err("InvalidPlayerIndex", t)
        ELSE
        LET p == GetP(t, seat) IN
        IF p.folded \/ p.all_in THEN Ok(t)
        ELSE
        LET t1 == SetP(t, seat, [p EXCEPT !.folded = TRUE])
            num_players == NumPlayers(t1)
        IN
        IF active_player_count(t1) = 1 THEN settle_fold_win(t1, now)
        ELSE Ok([t1 EXCEPT
                    !.current_turn = scan_seats(t1, (seat + 1) % num_players, num_players).seat,
                    !.last_action_ledger = now])
    ELSE IF t.phase \in {"Dealing", "DealingFlop", "DealingTurn", "DealingRiver", "Showdown"} THEN
        emergency_refund([t EXCEPT !.phase = "Dispute", !.last_action_ledger = now])
    ELSE Err("TimeoutNotApplicable", t)

----------------------------------------------------------------------------
(* pot.rs *)

(* all_in_levels: the distinct positive bets of all-in players, ascending *)
RECURSIVE SortAsc(_)
SortAsc(S) == IF S = {} THEN <<>> ELSE <<MinOf(S)>> \o SortAsc(S \ {MinOf(S)})

(* the seat_index values pushed, in player order, for the entries in `keep` *)
RECURSIVE SeatsOf(_, _, _)
SeatsOf(t, i, keep) ==
    IF i > Len(t.players) THEN <<>>
    ELSE (IF i \in keep THEN <<t.players[i].seat_index>> ELSE <<>>) \o SeatsOf(t, i + 1, keep)

level_pot(t, level, prev_level) ==
    LET live == {i \in 1..Len(t.players) : ~t.players[i].folded}
        contributed(i) == MinI(t.players[i].bet_this_round, level)
                          - MinI(t.players[i].bet_this_round, prev_level)
    IN [ amount |-> SumSeq([k \in 1..Len(t.players) |->
                               IF k \in live THEN contributed(k) ELSE 0]),
         eligible_players |->
             SeatsOf(t, 1, {i \in live : t.players[i].bet_this_round >= level}),
         level |-> level ]

RECURSIVE level_pots(_, _, _, _)
level_pots(t, levels, k, prev_level) ==
    IF k > Len(levels) THEN <<>>
    ELSE LET sp == level_pot(t, levels[k], prev_level) IN
         (IF sp.amount > 0 THEN <<sp>> ELSE <<>>) \o level_pots(t, levels, k + 1, levels[k])

(* Each pot carries, besides amount and eligible_players, the all-in level it
   was built at (0 for the single main pot and for the remaining pot). *)
calculate_side_pots(t) ==
    LET n == Len(t.players)
        live == {i \in 1..n : ~t.players[i].folded}
        all_in_levels == SortAsc({t.players[i].bet_this_round :
                                    i \in {j \in 1..n : t.players[j].all_in
                                                        /\ t.players[j].bet_this_round > 0}})
    IN
    IF all_in_levels = <<>>
    THEN << [amount |-> t.pot, eligible_players |-> SeatsOf(t, 1, live), level |-> 0] >>
    ELSE
    LET max_level == all_in_levels[Len(all_in_levels)]
        above == {i \in live : t.players[i].bet_this_round > max_level}
        remaining == SumSeq([k \in 1..n |->
                        IF k \in above THEN t.players[k].bet_this_round - max_level ELSE 0])
    IN level_pots(t, all_in_levels, 1, 0)
       \o (IF remaining > 0
           THEN << [amount |-> remaining, eligible_players |-> SeatsOf(t, 1, above),
                    level |-> 0] >>
           ELSE <<>>)

----------------------------------------------------------------------------
(* stellar-zk-cards: the hand evaluator used by settle_showdown *)

NUM_RANKS == 13

(* a score whose category is shifted by 16 bits only, into the tiebreaker *)
HandRank_new_overlapping(category, tiebreaker) == category * 65536 + tiebreaker

(* a score that keeps the category and drops the tiebreaker *)
HandRank_new_category_only(category, tiebreaker) == category * 16777216

(* (category << 28) | (tiebreaker & 0x0FFF_FFFF).  The score is a u32 and
   9 << 28 is beyond the integers TLC computes with, so the score is kept
   without bits 24..27, which are zero in every score: the tiebreakers built
   below are under 2^20.  The order of the scores is the order of the u32s. *)
HandRank_new(category, tiebreaker) == category * 16777216 + (tiebreaker % 268435456)

(* score >> 28 *)
HandRank_category(score) == score \div 16777216

(* a << k | b for b < 2^k *)
Pack(a, b) == a * 16 + b

RECURSIVE insert_desc(_, _)
insert_desc(x, s) ==
    IF s = <<>> THEN <<x>>
    ELSE IF x > Head(s) THEN <<x>> \o s
    ELSE <<Head(s)>> \o insert_desc(x, Tail(s))

RECURSIVE sort_desc(_)
sort_desc(s) == IF s = <<>> THEN <<>> ELSE insert_desc(Head(s), sort_desc(Tail(s)))

is_straight_hand(r) ==
    /\ r[1] = r[2] + 1
    /\ r[2] = r[3] + 1
    /\ r[3] = r[4] + 1
    /\ r[4] = r[5] + 1

(* the first element of s satisfying keep, or 0: iter().find(..).unwrap_or(0) *)
RECURSIVE FirstNot(_, _)
FirstNot(s, skip) ==
    IF s = <<>> THEN 0
    ELSE IF Head(s) \notin skip THEN Head(s)
    ELSE FirstNot(Tail(s), skip)

(* the elements of s not equal to x, in order, padded with 0 *)
Kickers(s, x) == SelectSeq(s, LAMBDA r : r # x) \o <<0, 0, 0>>

evaluate_five(cards) ==
    LET ranks == sort_desc([i \in 1..5 |-> cards[i] % NUM_RANKS])
        suits == [i \in 1..5 |-> cards[i] \div NUM_RANKS]
        is_flush == \A i \in 1..4 : suits[i] = suits[i + 1]
        is_straight == is_straight_hand(ranks)
        is_wheel == ranks = <<12, 3, 2, 1, 0>>
        freq(r) == Cardinality({i \in 1..5 : ranks[i] = r})
        quadset == {r \in 0..(NUM_RANKS - 1) : freq(r) = 4}
        tripset == {r \in 0..(NUM_RANKS - 1) : freq(r) = 3}
        pairset == {r \in 0..(NUM_RANKS - 1) : freq(r) = 2}
        quads == Cardinality(quadset)
        trips == Cardinality(tripset)
        pairs == Cardinality(pairset)
        quad_rank == IF quadset = {} THEN 0 ELSE MinOf(quadset)
        trip_rank == IF tripset = {} THEN 0 ELSE MinOf(tripset)
        pair_rank0 == IF pairset = {} THEN 0 ELSE MaxOf(pairset)
        pair_rank1 == IF pairs < 2 THEN 0 ELSE MaxOf(pairset \ {pair_rank0})
        five == Pack(Pack(Pack(Pack(ranks[1], ranks[2]), ranks[3]), ranks[4]), ranks[5])
    IN
    IF is_flush /\ is_straight THEN
        IF ranks[1] = 12 /\ ranks[2] = 11 THEN HandRank_new(9, ranks[1])
        ELSE HandRank_new(8, IF is_wheel THEN 3 ELSE ranks[1])
    ELSE IF is_flush /\ is_wheel THEN HandRank_new(8, 3)
    ELSE IF quads = 1 THEN
        HandRank_new(7, Pack(quad_rank, FirstNot(ranks, {quad_rank})))
    ELSE IF trips = 1 /\ pairs >= 1 THEN
        HandRank_new(6, Pack(trip_rank, pair_rank0))
    ELSE IF is_flush THEN HandRank_new(5, five)
    ELSE IF is_straight \/ is_wheel THEN
        HandRank_new(4, IF is_wheel THEN 3 ELSE ranks[1])
    ELSE IF trips = 1 THEN
        LET k == Kickers(ranks, trip_rank) IN
        HandRank_new(3, Pack(Pack(trip_rank, k[1]), k[2]))
    ELSE IF pairs = 2 THEN
        HandRank_new(2, Pack(Pack(pair_rank0, pair_rank1),
                             FirstNot(ranks, {pair_rank0, pair_rank1})))
    ELSE IF pairs = 1 THEN
        LET k == Kickers(ranks, pair_rank0) IN
        HandRank_new(1, Pack(Pack(Pack(pair_rank0, k[1]), k[2]), k[3]))
    ELSE HandRank_new(0, five)

(* the 5 cards left when positions i and j of the 7 are skipped *)
FiveOf(cards, i, j) == SelectSeq([k \in 1..7 |-> IF k = i \/ k = j THEN -1 ELSE cards[k]],
                                 LAMBDA c : c # -1)

evaluate_hand(cards) ==
    MaxOf({0} \cup {evaluate_five(FiveOf(cards, ij[1], ij[2])) :
                        ij \in {x \in (1..7) \X (1..7) : x[1] < x[2]}})

----------------------------------------------------------------------------
(* game.rs: settle_showdown *)

(* The committee's inputs.  The board is K♣ K♦ 2♣ 6♥ 10♠; a player's hole
   cards are A♣ A♦ (two pair) or 2♦ 2♥ (full house). *)
BoardDeck == <<11, 24, 0, 30, 47>>
HolePairs == {<<12, 25>>, <<13, 26>>}

(* evaluate_hand on the seven cards of a player at showdown; the ranks of the
   hands the committee's inputs can form are computed once *)
KnownRanks == [cards \in {hc \o BoardDeck : hc \in HolePairs} |-> evaluate_hand(cards)]
hand_rank(cards) ==
    IF cards \in DOMAIN KnownRanks THEN KnownRanks[cards] ELSE evaluate_hand(cards)

(* The loop over the players: [ok, best_rank, winner_seat] after players
   i..Len have been looked at; ok is FALSE when hole_cards runs out
   (InvalidHoleCards). *)
RECURSIVE showdown_scan(_, _, _, _, _, _)
showdown_scan(t, hole_cards, i, active_idx, best_rank, winner_seat) ==
    IF i > Len(t.players) THEN [ok |-> TRUE, winner_seat |-> winner_seat]
    ELSE IF t.players[i].folded
    THEN showdown_scan(t, hole_cards, i + 1, active_idx, best_rank, winner_seat)
    ELSE IF active_idx + 1 > Len(hole_cards) THEN [ok |-> FALSE, winner_seat |-> winner_seat]
    ELSE LET hc == hole_cards[active_idx + 1]
             rank == hand_rank(<<hc[1], hc[2]>> \o t.board_cards)
         IN IF rank > best_rank
            THEN showdown_scan(t, hole_cards, i + 1, active_idx + 1, rank,
                               t.players[i].seat_index)
            ELSE showdown_scan(t, hole_cards, i + 1, active_idx + 1, best_rank, winner_seat)

settle_showdown(t, hole_cards, now) ==
    IF Len(t.board_cards) # 5 THEN Err("BoardNotComplete", t)
    ELSE LET s == showdown_scan(t, hole_cards, 1, 0, 0, 0) IN
         IF ~s.ok THEN Err("InvalidHoleCards", t)
         ELSE IF s.winner_seat >= NumPlayers(t) THEN Err("InvalidPlayerIndex", t)
         ELSE LET winner == GetP(t, s.winner_seat) IN
              Ok([SetP(t, s.winner_seat, [winner EXCEPT !.stack = @ + t.pot])
                     EXCEPT !.pot = 0,
                            !.phase = "Settlement",
                            !.last_action_ledger = now])

----------------------------------------------------------------------------
(* lib.rs: the contract's entry points.  Each loads the stored table, works
   on the copy and returns [ok, err, table]; `stored` keeps the copy only
   when the call returned Ok (save_table is the last step of every entry
   point, and a failed invocation is rolled back by the host).  The verifier
   contract's answer is the input proof_ok. *)

(* a host that keeps the working copy whatever the call returned *)
stored_always(t, r) == r.table

stored(t, r) == IF r.ok THEN r.table ELSE t

(* join_table without the check that the address is not seated yet *)
join_table_seated_twice(t, player, buy_in) ==
    IF t.phase # "Waiting" THEN Err("TableNotAcceptingPlayers", t)
    ELSE IF Len(t.players) >= config.max_players THEN Err("TableFull", t)
    ELSE IF buy_in < config.min_buy_in \/ buy_in > config.max_buy_in
    THEN Err("InvalidBuyIn", t)
    ELSE Ok([t EXCEPT !.players = Append(@, NewPlayer(player, buy_in, Len(t.players)))])

join_table(t, player, buy_in) ==
    IF t.phase # "Waiting" THEN Err("TableNotAcceptingPlayers", t)
    ELSE IF Len(t.players) >= config.max_players THEN Err("TableFull", t)
    ELSE IF buy_in < config.min_buy_in \/ buy_in > config.max_buy_in
    THEN Err("InvalidBuyIn", t)
    ELSE IF \E i \in 1..Len(t.players) : t.players[i].address = player
    THEN Err("AlreadySeated", t)
    ELSE Ok([t EXCEPT !.players = Append(@, NewPlayer(player, buy_in, Len(t.players)))])

(* the stack leave_table transfers back to the player *)
withdrawn_by(t, player) ==
    SumSeq([i \in 1..Len(t.players) |->
              IF t.players[i].address = player THEN t.players[i].stack ELSE 0])

(* leave_table without the check of the phase *)
leave_table_any_phase(t, player) ==
    IF ~\E i \in 1..Len(t.players) : t.players[i].address = player
    THEN Err("PlayerNotAtTable", t)
    ELSE Ok([t EXCEPT !.players = SelectSeq(@, LAMBDA p : p.address # player)])

leave_table(t, player) ==
    IF t.phase \notin {"Waiting", "Settlement"} THEN Err("CannotLeaveDuringActiveHand", t)
    ELSE IF ~\E i \in 1..Len(t.players) : t.players[i].address = player
    THEN Err("PlayerNotAtTable", t)
    ELSE Ok([t EXCEPT !.players = SelectSeq(@, LAMBDA p : p.address # player)])

start_hand(t, now) ==
    IF t.phase \notin {"Waiting", "Settlement"} THEN Err("HandAlreadyInProgress", t)
    ELSE IF Len(t.players) < 2 THEN Err("NeedAtLeastTwoPlayers", t)
    ELSE start_new_hand(t, now)

commit_deal(t, committee, deck_root, hand_commitments, dealt_indices, proof_ok, now) ==
    IF t.phase # "Dealing" THEN Err("NotInDealingPhase", t)
    ELSE IF committee # config.committee THEN Err("NotAuthorizedCommittee", t)
    ELSE IF Len(hand_commitments) # Len(t.players) THEN Err("WrongCommitmentCount", t)
    ELSE IF ~proof_ok THEN Err("DealProofVerificationFailed", t)
    ELSE
    LET t1 == [t EXCEPT !.deck_root = deck_root,
                        !.hand_commitments = hand_commitments,
                        !.dealt_indices = dealt_indices,
                        !.phase = "Preflop",
                        !.last_action_ledger = now]
        num_players == Len(t.players)
    IN IF num_players < 2 THEN Err("NeedAtLeastTwoPlayers", t1)
       ELSE Ok([t1 EXCEPT !.current_turn = (t.dealer_seat + 3) % num_players])

player_action(t, player, action, now) ==
    IF t.phase \notin BettingPhases THEN Err("NotInBettingPhase", t)
    ELSE process_action(t, player, action, now)

reveal_board(t, committee, cards, indices, proof_ok, now) ==
    IF committee # config.committee THEN Err("NotAuthorizedCommittee", t)
    ELSE IF t.phase \notin {"DealingFlop", "DealingTurn", "DealingRiver"}
    THEN Err("NotInRevealPhase", t)
    ELSE
    LET expected_cards == IF t.phase = "DealingFlop" THEN 3 ELSE 1 IN
    IF Len(cards) # expected_cards \/ Len(indices) # expected_cards
    THEN Err("WrongCardCount", t)
    ELSE IF ~proof_ok THEN Err("RevealProofVerificationFailed", t)
    ELSE reset_round([t EXCEPT !.board_cards = @ \o cards,
                               !.dealt_indices = @ \o indices,
                               !.phase = CASE t.phase = "DealingFlop"  -> "Flop"
                                           [] t.phase = "DealingTurn"  -> "Turn"
                                           [] t.phase = "DealingRiver" -> "River",
                               !.last_action_ledger = now],
                     now)

(* submit_showdown that takes the cards from any caller *)
submit_showdown_any_caller(t, committee, hole_cards, proof_ok, now) ==
    IF t.phase # "Showdown" THEN Err("NotInShowdownPhase", t)
    ELSE IF ~proof_ok THEN Err("ShowdownProofVerificationFailed", t)
    ELSE settle_showdown(t, hole_cards, now)

submit_showdown(t, committee, hole_cards, proof_ok, now) ==
    IF t.phase # "Showdown" THEN Err("NotInShowdownPhase", t)
    ELSE IF committee # config.committee THEN Err("NotAuthorizedCommittee", t)
    ELSE IF ~proof_ok THEN Err("ShowdownProofVerificationFailed", t)
    ELSE settle_showdown(t, hole_cards, now)

(* a timeout claim that is accepted without settling anything *)
claim_timeout_unsettled(t, now) == Ok(t)

claim_timeout(t, now) == process_timeout(t, now)

----------------------------------------------------------------------------
(* The contract as a state machine: one action per entry point, its
   arguments drawn from small sets. *)

BuyIns == (config.min_buy_in - 1)..config.max_buy_in

RevealCards(t, count) ==
    [k \in 1..count |-> BoardDeck[((Len(t.board_cards) + k - 1) % 5) + 1]]
RevealIndices(t, count) ==
    [k \in 1..count |-> Len(t.dealt_indices) + k - 1]
DealtIndices(t) == [k \in 1..(2 * Len(t.players)) |-> k - 1]

contractVars == <<table, escrow, ledger, last>>

(* The host keeps the table of a call that returned Ok and rolls a failed
   call back. *)
Returned(op, arg, r) ==
    /\ table' = stored(table, r)
    /\ last' = IF r.ok THEN [op |-> op, ok |-> TRUE, arg |-> arg] ELSE last

JoinTable ==
    \E player \in Addresses, buy_in \in BuyIns :
        LET r == join_table(table, player, buy_in) IN
        /\ Returned("join_table", "", r)
        /\ escrow' = IF r.ok THEN escrow + buy_in ELSE escrow
        /\ UNCHANGED ledger

LeaveTable ==
    \E player \in 1..NumLeavers :
        LET r == leave_table(table, player) IN
        /\ Returned("leave_table", "", r)
        /\ escrow' = IF r.ok THEN escrow - withdrawn_by(table, player) ELSE escrow
        /\ UNCHANGED ledger

StartHand ==
    /\ table.hand_number < MaxHands
    /\ Returned("start_hand", "", start_hand(table, ledger))
    /\ UNCHANGED <<escrow, ledger>>

(* start_hand, hand after hand *)
StartNextHand ==
    /\ table.hand_number < MaxRounds
    /\ Returned("start_hand", "", start_hand(table, ledger))
    /\ UNCHANGED <<escrow, ledger>>

CommitDeal ==
    \E committee \in Callers, proof_ok \in BOOLEAN,
       count \in {Len(table.players), Len(table.players) + 1} :
        /\ Returned("commit_deal", "",
                    commit_deal(table, committee, 1, [k \in 1..count |-> 2],
                                DealtIndices(table), proof_ok, ledger))
        /\ UNCHANGED <<escrow, ledger>>

PlayerAction ==
    \E player \in Addresses, action \in ActionSet :
        LET r == player_action(table, player, action, ledger) IN
        /\ table' = stored(table, r)
        /\ last' = [op |-> "player_action", ok |-> r.ok,
                    arg |-> IF r.ok THEN action.kind ELSE ""]
        /\ UNCHANGED <<escrow, ledger>>

RevealBoard ==
    \E committee \in Callers, proof_ok \in BOOLEAN, count \in {1, 3} :
        /\ Returned("reveal_board", "",
                    reveal_board(table, committee, RevealCards(table, count),
                                 RevealIndices(table, count), proof_ok, ledger))
        /\ UNCHANGED <<escrow, ledger>>

SubmitShowdown ==
    \E committee \in Callers, proof_ok \in BOOLEAN,
       m \in {active_player_count(table), active_player_count(table) - 1} :
        /\ m >= 0
        /\ \E hole_cards \in [1..m -> HolePairs] :
            Returned("submit_showdown", "",
                     submit_showdown(table, committee, hole_cards, proof_ok, ledger))
        /\ UNCHANGED <<escrow, ledger>>

ClaimTimeout ==
    /\ Returned("claim_timeout", "", claim_timeout(table, ledger))
    /\ UNCHANGED <<escrow, ledger>>

(* the ledger closes: the sequence number grows by one *)
LedgerClose ==
    /\ ledger < MaxLedger
    /\ ledger' = ledger + 1
    /\ UNCHANGED <<table, escrow, last>>

ContractInit ==
    /\ table = create_table
    /\ escrow = 0
    /\ ledger = 0
    /\ last = [op |-> "create_table", ok |-> TRUE, arg |-> ""]

----------------------------------------------------------------------------
(* services/node: the proof-session registry of one node (session.rs, api.rs).
   A fragment file is identified by its source party, so partial_share_paths
   is the set of its keys.  expected_total_parties is 0 for None (post_shares
   rejects total_parties = 0). *)

SessionIds == {"s1"}
RequestedIds == SessionIds \cup {"s0"}     \* "s0" is never created
Circuits == {"deal_valid", "reveal_board_valid"}
Totals == {0, MaxParties - 1, MaxParties}
Sources == 0..MaxParties
ProverOutcomes == {"ok", "merge_fails", "witness_fails", "proof_fails", "write_fails"}

Status(tag) == [tag |-> tag, reason |-> "", got |-> 0, expected |-> 0]
Msg(text) == [tag |-> "", reason |-> text, got |-> 0, expected |-> 0]
Failed(reason, got, expected) ==
    [tag |-> "Failed", reason |-> reason, got |-> got, expected |-> expected]

MpcSessionState_new(circuit_name) ==
    [ circuit_name           |-> circuit_name,
      status                 |-> Status("SharesReceived"),
      partial_share_paths    |-> {},
      expected_total_parties |-> 0,
      proof_path             |-> FALSE ]

(* [ok, err, session]: the session is changed in place, so what was written
   before an error stays written *)
receive_share_fragment(session, share_data_ok, source_party_id, total_parties) ==
    IF source_party_id >= total_parties
    THEN [ok |-> FALSE, err |-> "source_party_id out of range", session |-> session]
    ELSE IF session.expected_total_parties # 0
            /\ session.expected_total_parties # total_parties
    THEN [ok |-> FALSE, err |-> "total_parties mismatch", session |-> session]
    ELSE
    LET s1 == [session EXCEPT !.expected_total_parties = total_parties] IN
    IF ~share_data_ok
    THEN [ok |-> FALSE, err |-> "base64 decode error", session |-> s1]
    ELSE [ok |-> TRUE, err |-> "",
          session |-> [s1 EXCEPT !.partial_share_paths = @ \cup {source_party_id},
                                 !.status = Status("SharesReceived")]]

(* run_proof_generation without the check of the fragment count *)
run_proof_generation_unchecked(partial_share_paths, expected_total_parties, prover) ==
    IF prover = "merge_fails"
    THEN [ok |-> FALSE, merged |-> TRUE,
          err |-> Failed("co-noir merge-input-shares failed", 0, 0)]
    ELSE IF prover = "witness_fails"
    THEN [ok |-> FALSE, merged |-> TRUE,
          err |-> Failed("co-noir generate-witness failed", 0, 0)]
    ELSE IF prover = "proof_fails"
    THEN [ok |-> FALSE, merged |-> TRUE,
          err |-> Failed("co-noir build-and-generate-proof failed", 0, 0)]
    ELSE [ok |-> TRUE, merged |-> TRUE, err |-> Msg("")]

(* [ok, err, merged]: merged tells whether co-noir merge-input-shares was
   run; `prover` is what the external commands do *)
run_proof_generation(partial_share_paths, expected_total_parties, prover) ==
    IF Cardinality(partial_share_paths) # expected_total_parties
    THEN [ok |-> FALSE, merged |-> FALSE,
          err |-> Failed("incomplete share fragments",
                         Cardinality(partial_share_paths), expected_total_parties)]
    ELSE IF prover = "merge_fails"
    THEN [ok |-> FALSE, merged |-> TRUE,
          err |-> Failed("co-noir merge-input-shares failed", 0, 0)]
    ELSE IF prover = "witness_fails"
    THEN [ok |-> FALSE, merged |-> TRUE,
          err |-> Failed("co-noir generate-witness failed", 0, 0)]
    ELSE IF prover = "proof_fails"
    THEN [ok |-> FALSE, merged |-> TRUE,
          err |-> Failed("co-noir build-and-generate-proof failed", 0, 0)]
    ELSE [ok |-> TRUE, merged |-> TRUE, err |-> Msg("")]

Response(op, id, code, body) ==
    [op |-> op, session_id |-> id, code |-> code, body |-> body, merged |-> FALSE]

(* POST /session/:id/shares *)
post_shares ==
    \E id \in SessionIds, circuit_name \in Circuits, share_data_ok \in BOOLEAN,
       source_party_id \in Sources, total_parties \in Totals :
        IF total_parties = 0
        THEN /\ node_event' = Response("post_shares", id, 400, Msg("total_parties must be > 0"))
             /\ UNCHANGED <<sessions, tasks>>
        ELSE
        LET session == IF id \in DOMAIN sessions THEN sessions[id]
                       ELSE MpcSessionState_new(circuit_name)
            created == [x \in DOMAIN sessions \cup {id} |->
                            IF x = id THEN session ELSE sessions[x]]
        IN
        IF session.circuit_name # circuit_name
        THEN /\ node_event' = Response("post_shares", id, 400, Msg("session circuit mismatch"))
             /\ UNCHANGED <<sessions, tasks>>
        ELSE
        LET r == receive_share_fragment(session, share_data_ok, source_party_id, total_parties)
        IN /\ sessions' = [created EXCEPT ![id] = r.session]
           /\ node_event' = Response("post_shares", id, IF r.ok THEN 200 ELSE 400, Msg(r.err))
           /\ UNCHANGED tasks

(* POST /session/:id/generate: the snapshot of the fragments is taken and the
   task spawned; the answer is 202 Accepted *)
post_generate ==
    \E id \in RequestedIds :
        IF id \notin DOMAIN sessions
        THEN /\ node_event' = Response("post_generate", id, 404, Msg("session not found"))
             /\ UNCHANGED <<sessions, tasks>>
        ELSE IF sessions[id].expected_total_parties = 0
        THEN /\ node_event' = Response("post_generate", id, 400,
                                       Msg("no share fragments received"))
             /\ UNCHANGED <<sessions, tasks>>
        ELSE
        LET task == [session_id |-> id,
                     partial_share_paths |-> sessions[id].partial_share_paths,
                     expected_total_parties |-> sessions[id].expected_total_parties]
        IN /\ Cardinality(tasks \cup {task}) <= MaxTasks
           /\ sessions' = [sessions EXCEPT ![id].status = Status("WitnessGenerating")]
           /\ tasks' = tasks \cup {task}
           /\ node_event' = Response("post_generate", id, 202, Msg(""))

(* the task spawned by post_generate runs run_proof_generation and records
   its result in the session *)
generation_task ==
    \E task \in tasks, prover \in ProverOutcomes :
        LET result == run_proof_generation(task.partial_share_paths,
                                           task.expected_total_parties, prover)
            id == task.session_id
        IN /\ tasks' = tasks \ {task}
           /\ sessions' =
                IF ~result.ok
                THEN [sessions EXCEPT ![id].status = result.err]
                ELSE IF prover = "write_fails"
                THEN [sessions EXCEPT ![id].status = Failed("write proof", 0, 0)]
                ELSE [sessions EXCEPT ![id].status = Status("Complete"),
                                      ![id].proof_path = TRUE]
           /\ node_event' = [op |-> "generation_task", session_id |-> id, code |-> 0,
                             body |-> sessions'[id].status, merged |-> result.merged]

(* GET /session/:id/status: the status as the string the poller reads *)
status_str(status) ==
    CASE status.tag = "SharesReceived"    -> Status("shares_received")
      [] status.tag = "WitnessGenerating" -> Status("witness_generating")
      [] status.tag = "ProofGenerating"   -> Status("proof_generating")
      [] status.tag = "Complete"          -> Status("complete")
      [] status.tag = "Failed"            -> [status EXCEPT !.tag = "failed"]

get_status ==
    \E id \in RequestedIds :
        /\ node_event' = IF id \notin DOMAIN sessions
                         THEN Response("get_status", id, 404, Msg(""))
                         ELSE Response("get_status", id, 200, status_str(sessions[id].status))
        /\ UNCHANGED <<sessions, tasks>>

(* GET /session/:id/proof *)
get_proof ==
    \E id \in RequestedIds :
        /\ node_event' =
             IF id \notin DOMAIN sessions
             THEN Response("get_proof", id, 404, Msg("session not found"))
             ELSE IF sessions[id].status.tag # "Complete"
             THEN Response("get_proof", id, 400, Msg("proof not ready"))
             ELSE IF ~sessions[id].proof_path
             THEN Response("get_proof", id, 500, Msg("proof not yet generated"))
             ELSE Response("get_proof", id, 200, Msg("proof"))
        /\ UNCHANGED <<sessions, tasks>>

nodeVars == <<sessions, tasks, node_event>>

NodeInit ==
    /\ sessions = [x \in {} |-> MpcSessionState_new("deal_valid")]
    /\ tasks = {}
    /\ node_event = Response("start", "", 0, Msg(""))

----------------------------------------------------------------------------
(* services/node/private_table.rs: a node's PrivateTableState for the table.
   contribution is 0 for None, else the number of the fan-out whose
   prepare_deal generated it; a share-set is named by the number of the
   fan-out that created it. *)

MAX_PLAYERS == 6
MAX_USED_INDICES == 16
MAX_BOARD_INDICES == 5

Workers == 0..(NumWorkers - 1)

PrivateTableState_default == [contribution |-> 0, pending_share_sets |-> {}]

Prepared(ok, state) == [ok |-> ok, state |-> state]

(* split_ok: what the external splitting tool does *)
prepare_deal(state, players, split_ok, share_set_id) ==
    IF players < 2 \/ players > MAX_PLAYERS THEN Prepared(FALSE, state)
    ELSE LET s1 == [contribution |-> share_set_id, pending_share_sets |-> {}] IN
         IF ~split_ok THEN Prepared(FALSE, s1)
         ELSE Prepared(TRUE, [s1 EXCEPT !.pending_share_sets = @ \cup {share_set_id}])

prepare_reveal(state, phase, previously_used_indices, split_ok, share_set_id) ==
    IF phase \notin {"flop", "turn", "river"} THEN Prepared(FALSE, state)
    ELSE IF previously_used_indices > MAX_USED_INDICES THEN Prepared(FALSE, state)
    ELSE IF state.contribution = 0 THEN Prepared(FALSE, state)
    ELSE IF ~split_ok THEN Prepared(FALSE, state)
    ELSE Prepared(TRUE, [state EXCEPT !.pending_share_sets = @ \cup {share_set_id}])

prepare_showdown(state, board_indices, num_active_players, hand_commitments, split_ok, share_set_id) ==
    IF board_indices # MAX_BOARD_INDICES THEN Prepared(FALSE, state)
    ELSE IF num_active_players < 2 \/ num_active_players > MAX_PLAYERS
    THEN Prepared(FALSE, state)
    ELSE IF hand_commitments # num_active_players THEN Prepared(FALSE, state)
    ELSE IF state.contribution = 0 THEN Prepared(FALSE, state)
    ELSE IF ~split_ok THEN Prepared(FALSE, state)
    ELSE Prepared(TRUE, [state EXCEPT !.pending_share_sets = @ \cup {share_set_id}])

(* api.rs post_dispatch_shares: clone_share_set, dispatch_share_payloads to
   the peers, remove_share_set *)
post_dispatch_shares(state, share_set_id, peers_ok) ==
    IF share_set_id \notin state.pending_share_sets THEN Prepared(FALSE, state)
    ELSE IF ~peers_ok THEN Prepared(FALSE, state)
    ELSE Prepared(TRUE, [state EXCEPT !.pending_share_sets = @ \ {share_set_id}])

----------------------------------------------------------------------------
(* services/coordinator: request_deal, request_reveal, request_showdown
   (api/mod.rs) over the nodes (mpc.rs).  What the nodes, the prover and the
   ledger answer is the input `env` of a request. *)

MIN_PLAYERS == 2
OrchPlayers == 2        \* players of the deals requested and of the table on the ledger

NoSession == [phase |-> "none"]

PrepareOutcomes == {"ok", "rejected", "unreachable"}

AllOk == [w \in Workers |-> "ok"]

(* the answers of one pass through prepare, dispatch, generate/poll and
   submit; a stage is only asked after the stages before it succeeded *)
StageEnvs ==
    {e \in [prepare  : [Workers -> PrepareOutcomes],
            dispatch : [Workers -> {"ok", "failed"}],
            proof    : {"ok", "failed"},
            submit   : {"hash", "empty", "error"}] :
        /\ e.prepare # AllOk => e.dispatch = AllOk
        /\ (e.prepare # AllOk \/ e.dispatch # AllOk) => e.proof = "ok"
        /\ (e.prepare # AllOk \/ e.dispatch # AllOk \/ e.proof # "ok") => e.submit = "hash"}

ChainAnswers ==
    {"unavailable", "unparseable",
     "waiting", "dealing", "preflop", "flop", "turn", "river", "settlement"}

EmptyMap == [x \in {} |-> 0]

Put(f, k, v) == [x \in DOMAIN f \cup {k} |-> IF x = k THEN v ELSE f[x]]

BoardCount(phase) ==
    CASE phase = "flop" -> 3 [] phase = "turn" -> 4
      [] phase \in {"river", "settlement"} -> 5 [] OTHER -> 0

TableSession(phase) ==
    [ phase                   |-> phase,
      player_order            |-> OrchPlayers,
      hand_commitments        |-> OrchPlayers,
      dealt_indices           |-> 2 * OrchPlayers + BoardCount(phase),
      board_indices           |-> BoardCount(phase),
      deal_tx_hash            |-> 0,
      reveal_tx_hashes        |-> EmptyMap,
      reveal_session_ids      |-> EmptyMap,
      revealed_cards_by_phase |-> EmptyMap,
      showdown_tx_hash        |-> 0,
      showdown_session_id     |-> [label |-> "", nonce |-> 0],
      showdown_result         |-> -1,      \* None; Some((winner, i)) is i
      proof_nonce             |-> 0 ]

(* session.rs build_session_from_onchain_state: the session of a table found
   on the ledger in `phase` *)
build_session_from_onchain_state(phase) ==
    [TableSession(phase) EXCEPT
        !.revealed_cards_by_phase =
            [p \in {q \in {"flop", "turn", "river"} : BoardCount(q) <= BoardCount(phase)} |->
                IF p = "flop" THEN SubSeq(BoardDeck, 1, 3)
                ELSE <<BoardDeck[BoardCount(p)]>>]]

(* ensure_session_exists that asks the ledger whether or not a session is held *)
ensure_session_exists_always_asks(session, chain) ==
    IF ~configured THEN [code |-> 404, coord |-> session]
    ELSE IF chain = "unavailable" THEN [code |-> 503, coord |-> session]
    ELSE IF chain = "unparseable" THEN [code |-> 404, coord |-> session]
    ELSE [code |-> 0, coord |-> build_session_from_onchain_state(chain)]

(* [code, coord]: 0 for Ok(()) *)
ensure_session_exists(session, chain) ==
    IF session # NoSession THEN [code |-> 0, coord |-> session]
    ELSE IF ~configured THEN [code |-> 404, coord |-> session]
    ELSE IF chain = "unavailable" THEN [code |-> 503, coord |-> session]
    ELSE IF chain = "unparseable" THEN [code |-> 404, coord |-> session]
    ELSE [code |-> 0, coord |-> build_session_from_onchain_state(chain)]

(* next_proof_session_id that also moves the session to the phase asked for *)
next_proof_session_id_moves(session, label) ==
    [session |-> [session EXCEPT !.proof_nonce = @ + 1, !.phase = label],
     id      |-> [label |-> label, nonce |-> session.proof_nonce + 1]]

next_proof_session_id(session, label) ==
    [session |-> [session EXCEPT !.proof_nonce = @ + 1],
     id      |-> [label |-> label, nonce |-> session.proof_nonce + 1]]

(* mpc.rs prepare_*_from_nodes: one request to every node, all of them sent;
   a node that is not reached keeps its state *)
prepare_from_nodes(kind, session, phase, players, env, share_set_id) ==
    [w \in Workers |->
        IF env.prepare[w] = "unreachable" THEN Prepared(FALSE, workers[w])
        ELSE IF kind = "deal"
        THEN prepare_deal(workers[w], players, env.prepare[w] = "ok", share_set_id)
        ELSE IF kind = "reveal"
        THEN prepare_reveal(workers[w], phase, session.dealt_indices,
                            env.prepare[w] = "ok", share_set_id)
        ELSE prepare_showdown(workers[w], session.board_indices, session.player_order,
                              session.hand_commitments, env.prepare[w] = "ok",
                              share_set_id)]

collect_prepared_share_sets(prepared) == \A w \in Workers : prepared[w].ok

dispatch_share_sets_from_nodes(prepared, env, share_set_id) ==
    [w \in Workers |->
        post_dispatch_shares(prepared[w].state, share_set_id, env.dispatch[w] = "ok")]

StatesOf(results) == [w \in Workers |-> results[w].state]

Answer(op, phase, code, status, stage) ==
    [op |-> op, phase |-> phase, code |-> code, status |-> status, stage |-> stage,
     tx_hash |-> 0, session_id |-> [label |-> "", nonce |-> 0], cards |-> <<>>,
     winner_index |-> 0]

Outcome(session, nodes, answer, fanouts, submitted) ==
    [coord |-> session, workers |-> nodes, response |-> answer,
     attempts |-> fanouts, txs |-> submitted]

(* prepare, dispatch, generate and poll of one proof:
   [stage, workers, ok]; stage names the step that failed *)
prove(kind, session, phase, players, env, share_set_id) ==
    LET prepared == prepare_from_nodes(kind, session, phase, players, env, share_set_id)
        dispatched == dispatch_share_sets_from_nodes(prepared, env, share_set_id)
    IN
    IF ~collect_prepared_share_sets(prepared)
    THEN [ok |-> FALSE, stage |-> "prepare", workers |-> StatesOf(prepared)]
    ELSE IF \E w \in Workers : ~dispatched[w].ok
    THEN [ok |-> FALSE, stage |-> "dispatch", workers |-> StatesOf(dispatched)]
    ELSE IF env.proof # "ok"
    THEN [ok |-> FALSE, stage |-> "generate", workers |-> StatesOf(dispatched)]
    ELSE [ok |-> TRUE, stage |-> "done", workers |-> StatesOf(dispatched)]

QuietEnv == [prepare |-> AllOk, dispatch |-> AllOk, proof |-> "ok", submit |-> "hash"]

(* POST /api/table/:id/request-deal *)
request_deal(players, limited, env) ==
    LET op == "request_deal"
        fanout == attempts + 1
        unchanged(code, stage) ==
            Outcome(coord, workers, Answer(op, "", code, "", stage), attempts, txs)
    IN
    IF limited THEN unchanged(429, "validate")
    ELSE IF players < MIN_PLAYERS \/ players > MAX_PLAYERS THEN unchanged(400, "validate")
    ELSE IF coord # NoSession /\ coord.phase \notin {"waiting", "settlement"}
    THEN unchanged(409, "validate")
    ELSE IF NumWorkers = 0 THEN unchanged(503, "validate")
    ELSE
    LET p == prove("deal", coord, "", players, env, fanout) IN
    IF ~p.ok
    THEN Outcome(coord, p.workers, Answer(op, "", 502, "", p.stage), fanout, txs)
    ELSE IF configured /\ env.submit = "error"
    THEN Outcome(coord, p.workers, Answer(op, "", 502, "", "submit"), fanout, txs)
    ELSE
    LET tx_hash == IF configured /\ env.submit = "hash" THEN txs + 1 ELSE 0
        session_id == [label |-> "deal", nonce |-> fanout]
    IN Outcome([TableSession("preflop") EXCEPT !.deal_tx_hash = tx_hash,
                                               !.player_order = players,
                                               !.hand_commitments = players,
                                               !.dealt_indices = 2 * players],
               p.workers,
               [Answer(op, "", 200, "dealt", "done") EXCEPT !.tx_hash = tx_hash,
                                                           !.session_id = session_id],
               fanout, IF tx_hash # 0 THEN txs + 1 ELSE txs)

validate_reveal_phase(phase) == phase \in {"flop", "turn", "river"}

(* POST /api/table/:id/request-reveal/:phase *)
request_reveal(phase, limited, chain, auto_advanced, env) ==
    LET op == "request_reveal"
        fanout == attempts + 1
        ens == ensure_session_exists(coord, chain)
        session == ens.coord
        rejected(code, stage, kept) ==
            Outcome(kept, workers, Answer(op, phase, code, "", stage), attempts, txs)
        expected_next_phase ==
            CASE session.phase = "preflop" -> "flop"
              [] session.phase = "flop"    -> "turn"
              [] session.phase = "turn"    -> "river"
              [] OTHER                     -> "none"
    IN
    IF ~validate_reveal_phase(phase) THEN rejected(400, "validate", coord)
    ELSE IF limited THEN rejected(429, "validate", coord)
    ELSE IF NumWorkers = 0 THEN rejected(503, "validate", coord)
    ELSE IF ens.code # 0 THEN rejected(ens.code, "validate", coord)
    ELSE IF expected_next_phase = "none" \/ phase # expected_next_phase
    THEN rejected(409, "validate", session)
    ELSE IF phase \in DOMAIN session.reveal_tx_hashes
    THEN Outcome(session, workers,
                 [Answer(op, phase, 200, "revealed", "cached") EXCEPT
                     !.cards = IF phase \in DOMAIN session.revealed_cards_by_phase
                               THEN session.revealed_cards_by_phase[phase] ELSE <<>>,
                     !.session_id = IF phase \in DOMAIN session.reveal_session_ids
                                    THEN session.reveal_session_ids[phase]
                                    ELSE [label |-> "", nonce |-> 0],
                     !.tx_hash = session.reveal_tx_hashes[phase]],
                 attempts, txs)
    ELSE IF configured /\ ~auto_advanced THEN rejected(502, "auto_advance", session)
    ELSE
    LET p == prove("reveal", session, phase, session.player_order, env, fanout)
        next == next_proof_session_id(session, phase)
        num_revealed == IF phase = "flop" THEN 3 ELSE 1
        cards == SubSeq(BoardDeck, session.board_indices + 1,
                        MinI(5, session.board_indices + num_revealed))
    IN
    IF p.stage = "prepare"
    THEN Outcome(session, p.workers, Answer(op, phase, 502, "", p.stage), fanout, txs)
    ELSE IF ~p.ok
    THEN Outcome(next.session, p.workers, Answer(op, phase, 502, "", p.stage), fanout, txs)
    ELSE IF configured /\ env.submit = "error"
    THEN Outcome(next.session, p.workers, Answer(op, phase, 502, "", "submit"), fanout, txs)
    ELSE
    LET tx_hash == IF configured /\ env.submit = "hash" THEN txs + 1 ELSE 0 IN
    Outcome([next.session EXCEPT
                !.dealt_indices = @ + num_revealed,
                !.board_indices = @ + num_revealed,
                !.phase = phase,
                !.reveal_tx_hashes = IF tx_hash # 0 THEN Put(@, phase, tx_hash) ELSE @,
                !.reveal_session_ids = Put(@, phase, next.id),
                !.revealed_cards_by_phase = Put(@, phase, cards)],
            p.workers,
            [Answer(op, phase, 200, "revealed", "done") EXCEPT !.cards = cards,
                                                              !.session_id = next.id,
                                                              !.tx_hash = tx_hash],
            fanout, IF tx_hash # 0 THEN txs + 1 ELSE txs)

(* POST /api/table/:id/request-showdown; `fallback` is what the ledger
   answers to the claim_timeout sent after a rejected showdown proof *)
request_showdown(limited, chain, auto_advanced, env, fallback, winner_index) ==
    LET op == "request_showdown"
        fanout == attempts + 1
        ens == ensure_session_exists(coord, chain)
        session == ens.coord
        rejected(code, stage, kept) ==
            Outcome(kept, workers, Answer(op, "", code, "", stage), attempts, txs)
    IN
    IF limited THEN rejected(429, "validate", coord)
    ELSE IF NumWorkers = 0 THEN rejected(503, "validate", coord)
    ELSE IF ens.code # 0 THEN rejected(ens.code, "validate", coord)
    ELSE IF session.phase = "settlement"
    THEN Outcome(session, workers,
                 [Answer(op, "", 200,
                         IF session.showdown_result # -1 THEN "showdown_complete"
                         ELSE "settled_timeout", "cached") EXCEPT
                     !.winner_index = IF session.showdown_result # -1
                                      THEN session.showdown_result ELSE 0,
                     !.session_id = session.showdown_session_id,
                     !.tx_hash = session.showdown_tx_hash],
                 attempts, txs)
    ELSE IF session.phase \notin {"river", "showdown"} THEN rejected(409, "validate", session)
    ELSE IF configured /\ session.phase = "river" /\ ~auto_advanced
    THEN rejected(502, "auto_advance", session)
    ELSE
    LET p == prove("showdown", session, "", session.player_order, env, fanout)
        next == next_proof_session_id(session, "showdown")
    IN
    IF p.stage = "prepare"
    THEN Outcome(session, p.workers, Answer(op, "", 502, "", p.stage), fanout, txs)
    ELSE IF ~p.ok
    THEN Outcome(next.session, p.workers, Answer(op, "", 502, "", p.stage), fanout, txs)
    ELSE IF winner_index >= session.player_order
    THEN Outcome(next.session, p.workers, Answer(op, "", 502, "", "parse"), fanout, txs)
    ELSE IF configured /\ env.submit = "error" /\ fallback = "error"
    THEN Outcome(next.session, p.workers, Answer(op, "", 502, "", "submit"), fanout, txs)
    ELSE
    LET settled_by_timeout == configured /\ env.submit = "error"
        answered == IF settled_by_timeout THEN fallback ELSE env.submit
        tx_hash == IF configured /\ answered = "hash" THEN txs + 1 ELSE 0
        status == IF settled_by_timeout THEN "settled_timeout" ELSE "showdown_complete"
    IN
    Outcome([next.session EXCEPT !.phase = "settlement",
                                 !.showdown_tx_hash = tx_hash,
                                 !.showdown_session_id = next.id,
                                 !.showdown_result =
                                     IF settled_by_timeout THEN -1 ELSE winner_index],
            p.workers,
            [Answer(op, "", 200, status, "done") EXCEPT
                !.winner_index = IF settled_by_timeout THEN 0 ELSE winner_index,
                !.session_id = next.id,
                !.tx_hash = tx_hash],
            fanout, IF tx_hash # 0 THEN txs + 1 ELSE txs)

orchVars == <<coord, workers, response, attempts, txs, configured, issued>>

(* the proof-session id a request handed to the nodes: the handler names one
   once the prepare fan-out has succeeded.  request_deal draws a Uuid, named
   here by the number of the fan-out; request_reveal and request_showdown
   take next_proof_session_id of the session *)
IssuedBy(answer, session, fanouts) ==
    IF answer.stage \notin {"dispatch", "generate", "parse", "submit", "done"} THEN {}
    ELSE IF answer.op = "request_deal" THEN {[label |-> "deal", nonce |-> fanouts]}
    ELSE IF answer.op = "request_reveal"
    THEN {[label |-> answer.phase, nonce |-> session.proof_nonce]}
    ELSE {[label |-> "showdown", nonce |-> session.proof_nonce]}

Handled(o) ==
    /\ o.attempts <= MaxAttempts
    /\ coord' = o.coord
    /\ workers' = o.workers
    /\ response' = o.response
    /\ attempts' = o.attempts
    /\ txs' = o.txs
    /\ issued' = issued \cup IssuedBy(o.response, o.coord, o.attempts)
    /\ UNCHANGED configured

ChainChoices == IF coord = NoSession /\ configured THEN ChainAnswers ELSE {"unavailable"}
AutoChoices == IF configured THEN BOOLEAN ELSE {TRUE}
EnvChoices(limited) == IF limited THEN {QuietEnv} ELSE StageEnvs

(* the winner index in the public inputs of a showdown proof; OrchPlayers is
   out of range *)
WinnerChoices(limited, env) ==
    IF ~limited /\ env.prepare = AllOk /\ env.dispatch = AllOk /\ env.proof = "ok"
    THEN 0..OrchPlayers ELSE {0}

RequestDeal ==
    \E players \in {MIN_PLAYERS - 1, OrchPlayers}, limited \in BOOLEAN :
        \E env \in EnvChoices(limited) :
            Handled(request_deal(players, limited, env))

RequestReveal ==
    \E phase \in {"flop", "turn", "river", "showdown"}, limited \in BOOLEAN :
        \E chain \in ChainChoices, auto_advanced \in AutoChoices,
           env \in EnvChoices(limited \/ ~validate_reveal_phase(phase)) :
            Handled(request_reveal(phase, limited, chain, auto_advanced, env))

RequestShowdown ==
    \E limited \in BOOLEAN :
        \E chain \in ChainChoices, auto_advanced \in AutoChoices,
           env \in EnvChoices(limited) :
            \E fallback \in IF configured /\ env.submit = "error"
                            THEN {"hash", "empty", "error"} ELSE {"hash"},
               winner_index \in WinnerChoices(limited, env) :
                Handled(request_showdown(limited, chain, auto_advanced, env, fallback,
                                         winner_index))

OrchInit ==
    /\ coord = NoSession
    /\ workers = [w \in Workers |-> PrivateTableState_default]
    /\ response = Answer("start", "", 0, "", "")
    /\ attempts = 0
    /\ txs = 0
    /\ issued = {}

----------------------------------------------------------------------------
(* The coordinator attached to the ledger: it is the committee of the table,
   and what the ledger answers to a request is what the contract does with
   the call.  The nodes and the prover answer every stage (QuietEnv); the
   ledger's verifier accepts or rejects the proof (proof_ok). *)

MAX_AUTO_ACTIONS == 24

(* parsing.rs map_onchain_phase_to_local; "unparseable" for None *)
map_onchain_phase_to_local(phase) ==
    CASE phase = "Waiting"      -> "waiting"
      [] phase = "Dealing"      -> "dealing"
      [] phase = "Preflop"      -> "preflop"
      [] phase = "DealingFlop"  -> "preflop"
      [] phase = "Flop"         -> "flop"
      [] phase = "DealingTurn"  -> "flop"
      [] phase = "Turn"         -> "turn"
      [] phase = "DealingRiver" -> "turn"
      [] phase = "River"        -> "river"
      [] phase = "Showdown"     -> "river"
      [] phase = "Settlement"   -> "settlement"
      [] OTHER                  -> "unparseable"

(* soroban/actions.rs maybe_auto_advance_betting_if_phase: one Call or Check
   for the player to act, each its own transaction, while the table is in
   expected_phase; [ok, table] with the table as the ledger holds it *)
RECURSIVE maybe_auto_advance_betting_if_phase(_, _, _, _)
maybe_auto_advance_betting_if_phase(t, expected_phase, now, steps) ==
    IF steps = 0 THEN [ok |-> FALSE, table |-> t]
    ELSE IF t.phase # expected_phase THEN [ok |-> TRUE, table |-> t]
    ELSE IF t.current_turn >= NumPlayers(t) THEN [ok |-> FALSE, table |-> t]
    ELSE
    LET current_player == GetP(t, t.current_turn)
        current_bet == max_bet_this_round(t)
        kind == IF current_player.bet_this_round < current_bet THEN "Call" ELSE "Check"
        r == player_action(t, current_player.address, [kind |-> kind, amount |-> 0], now)
    IN IF ~r.ok THEN [ok |-> FALSE, table |-> t]
       ELSE maybe_auto_advance_betting_if_phase(r.table, expected_phase, now, steps - 1)

maybe_auto_advance_betting_for_reveal(t, reveal_phase, now) ==
    LET expected == CASE reveal_phase = "flop"  -> "Preflop"
                      [] reveal_phase = "turn"  -> "Flop"
                      [] reveal_phase = "river" -> "Turn"
                      [] OTHER                  -> ""
    IN IF expected = "" THEN [ok |-> TRUE, table |-> t]
       ELSE maybe_auto_advance_betting_if_phase(t, expected, now, MAX_AUTO_ACTIONS)

maybe_auto_advance_betting_for_showdown(t, now) ==
    maybe_auto_advance_betting_if_phase(t, "River", now, MAX_AUTO_ACTIONS)

Submitted(r) == [QuietEnv EXCEPT !.submit = IF r.ok THEN "hash" ELSE "error"]

(* the handler got as far as the ledger call / as the auto-advance *)
ReachedSubmit(o) == o.response.stage \in {"submit", "done"}
ReachedAdvance(o) == o.response.stage \notin {"validate", "cached"}

OnLedger(o, t) ==
    /\ o.attempts <= MaxFanouts
    /\ coord' = o.coord
    /\ workers' = o.workers
    /\ response' = o.response
    /\ attempts' = o.attempts
    /\ txs' = o.txs
    /\ issued' = issued \cup IssuedBy(o.response, o.coord, o.attempts)
    /\ table' = t
    /\ last' = [op |-> o.response.op, ok |-> o.response.code = 200, arg |-> ""]
    /\ UNCHANGED <<escrow, ledger, configured>>

(* the players of the coordinator's table take their seats with a full buy-in *)
JoinOnLedger ==
    \E player \in 1..OrchPlayers :
        LET r == join_table(table, player, config.max_buy_in) IN
        /\ Returned("join_table", "", r)
        /\ escrow' = IF r.ok THEN escrow + config.max_buy_in ELSE escrow
        /\ UNCHANGED ledger

(* what a request answers and what the ledger holds after it: [o, table];
   DealOnLedger, RevealOnLedger and ShowdownOnLedger are the steps that take it *)
deal_on_ledger(players, proof_ok) ==
    LET r == commit_deal(table, config.committee, 1, [k \in 1..players |-> 2],
                         [k \in 1..(2 * players) |-> k - 1], proof_ok, ledger)
        o == request_deal(players, FALSE, Submitted(r))
    IN [o |-> o, table |-> IF ReachedSubmit(o) THEN stored(table, r) ELSE table]

reveal_on_ledger(phase, proof_ok) ==
    LET a == maybe_auto_advance_betting_for_reveal(table, phase, ledger)
        count == IF phase = "flop" THEN 3 ELSE 1
        r == reveal_board(a.table, config.committee, RevealCards(a.table, count),
                          RevealIndices(a.table, count), proof_ok, ledger)
        o == request_reveal(phase, FALSE, map_onchain_phase_to_local(table.phase),
                            a.ok, Submitted(r))
    IN [o |-> o, table |-> IF ReachedSubmit(o) THEN stored(a.table, r)
                           ELSE IF ReachedAdvance(o) THEN a.table ELSE table]

showdown_on_ledger(proof_ok) ==
    LET chain == map_onchain_phase_to_local(table.phase)
        session == ensure_session_exists(coord, chain).coord
        advances == session.phase = "river"
        a == IF advances THEN maybe_auto_advance_betting_for_showdown(table, ledger)
             ELSE [ok |-> TRUE, table |-> table]
        hole_cards == [k \in 1..active_player_count(a.table) |->
                          IF k = 1 THEN <<12, 25>> ELSE <<13, 26>>]
        r == submit_showdown(a.table, config.committee, hole_cards, proof_ok, ledger)
        fallback == claim_timeout(a.table, ledger)
        o == request_showdown(FALSE, chain, a.ok, Submitted(r),
                              IF fallback.ok THEN "hash" ELSE "error",
                              OrchPlayers - 1)   \* the holder of the full house
    IN [o |-> o, table |-> IF ReachedSubmit(o)
                           THEN (IF r.ok THEN r.table ELSE stored(a.table, fallback))
                           ELSE IF ReachedAdvance(o) THEN a.table ELSE table]

DealOnLedger ==
    \E players \in MIN_PLAYERS..config.max_players, proof_ok \in BOOLEAN :
        LET r == commit_deal(table, config.committee, 1, [k \in 1..players |-> 2],
                             [k \in 1..(2 * players) |-> k - 1], proof_ok, ledger)
            o == request_deal(players, FALSE, Submitted(r))
        IN OnLedger(o, IF ReachedSubmit(o) THEN stored(table, r) ELSE table)

RevealOnLedger ==
    \E phase \in {"flop", "turn", "river"}, proof_ok \in BOOLEAN :
        LET a == maybe_auto_advance_betting_for_reveal(table, phase, ledger)
            count == IF phase = "flop" THEN 3 ELSE 1
            r == reveal_board(a.table, config.committee, RevealCards(a.table, count),
                              RevealIndices(a.table, count), proof_ok, ledger)
            o == request_reveal(phase, FALSE, map_onchain_phase_to_local(table.phase),
                                a.ok, Submitted(r))
        IN OnLedger(o, IF ReachedSubmit(o) THEN stored(a.table, r)
                       ELSE IF ReachedAdvance(o) THEN a.table ELSE table)

ShowdownOnLedger ==
    \E proof_ok \in BOOLEAN :
        LET chain == map_onchain_phase_to_local(table.phase)
            session == ensure_session_exists(coord, chain).coord
            advances == session.phase = "river"
            a == IF advances THEN maybe_auto_advance_betting_for_showdown(table, ledger)
                 ELSE [ok |-> TRUE, table |-> table]
            hole_cards == [k \in 1..active_player_count(a.table) |->
                              IF k = 1 THEN <<12, 25>> ELSE <<13, 26>>]
            r == submit_showdown(a.table, config.committee, hole_cards, proof_ok, ledger)
            fallback == claim_timeout(a.table, ledger)
            o == request_showdown(FALSE, chain, a.ok, Submitted(r),
                                  IF fallback.ok THEN "hash" ELSE "error",
                                  OrchPlayers - 1)   \* the holder of the full house
        IN OnLedger(o, IF ReachedSubmit(o)
                       THEN (IF r.ok THEN r.table ELSE stored(a.table, fallback))
                       ELSE IF ReachedAdvance(o) THEN a.table ELSE table)

(* hand after hand on one table: every request is answered by the nodes and
   the ledger, except that the prover may fail *)
RequestInTurn ==
    \E op \in {"deal", "flop", "turn", "river", "showdown"},
       env \in {QuietEnv, [QuietEnv EXCEPT !.proof = "failed"]} :
        LET o == CASE op = "deal"     -> request_deal(OrchPlayers, FALSE, env)
                   [] op = "showdown" -> request_showdown(FALSE, "unavailable", TRUE, env, "hash", 0)
                   [] OTHER           -> request_reveal(op, FALSE, "unavailable", TRUE, env)
        IN /\ o.attempts <= MaxIssues
           /\ attempts' = o.attempts
           /\ coord' = o.coord
           /\ workers' = o.workers
           /\ response' = o.response
           /\ txs' = o.txs
           /\ issued' = issued \cup IssuedBy(o.response, o.coord, o.attempts)
           /\ UNCHANGED configured

----------------------------------------------------------------------------
(* The coordinator's table-session lock: AppState.tables is one
   tokio RwLock around the map of sessions.  Each handler is a process whose
   position is pc[handler]; a position after a lock acquisition and before
   the release (the guard going out of scope, or drop) holds the lock.
   An .await on a node or on the ledger is a position of its own. *)

Handlers == {"request_deal", "request_reveal", "request_showdown", "get_player_cards"}
SessionWriters == {"request_reveal", "request_showdown"}

(* positions at which request_reveal and request_showdown wait for the
   ledger auto-advance, the nodes' prepare, the dispatch/generate/poll of the
   proof and the ledger submission *)
ProofWait == {"auto_advance", "prepare", "generate", "submit"}

NextWait(at) ==
    CASE at = "auto_advance" -> "prepare"
      [] at = "prepare"      -> "generate"
      [] at = "generate"     -> "submit"
      [] at = "submit"       -> "update"

(* tables.read().await returns when no writer holds the lock *)
CanRead == tables_lock.writer = "none"
(* tables.write().await returns when nobody holds the lock *)
CanWrite == tables_lock.writer = "none" /\ tables_lock.readers = 0

At(h, at) == pc[h] = at
Goto(h, at) == pc' = [pc EXCEPT ![h] = at]

(* ensure_session_exists: tables.read(), contains_key, guard dropped *)
EnsureSession(h) ==
    /\ At(h, "idle")
    /\ CanRead
    /\ Goto(h, "ensured")
    /\ UNCHANGED tables_lock

(* request_reveal / request_showdown: let mut tables = state.tables.write().await;
   session borrows from the guard until the handler returns *)
AcquireSession(h) ==
    /\ At(h, "ensured")
    /\ CanWrite
    /\ tables_lock' = [tables_lock EXCEPT !.writer = h]
    /\ Goto(h, "bookkeeping")

(* phase check and cached response return early; otherwise the handler goes
   on to the ledger and the nodes *)
Bookkeeping(h) ==
    /\ At(h, "bookkeeping")
    /\ \/ Goto(h, "auto_advance") /\ UNCHANGED tables_lock
       \/ Goto(h, "idle") /\ tables_lock' = [tables_lock EXCEPT !.writer = "none"]

(* an await of the handler completes: with Ok the handler goes on, with Err
   it returns BAD_GATEWAY and the guard is dropped *)
AwaitDone(h) ==
    /\ pc[h] \in ProofWait
    /\ \/ Goto(h, NextWait(pc[h])) /\ UNCHANGED tables_lock
       \/ Goto(h, "idle") /\ tables_lock' = [tables_lock EXCEPT !.writer = "none"]

(* session update and Ok(Json(..)): the guard is dropped on return *)
UpdateSession(h) ==
    /\ At(h, "update")
    /\ Goto(h, "idle")
    /\ tables_lock' = [tables_lock EXCEPT !.writer = "none"]

(* request_deal: a read guard scoped to the phase check, the proof run
   without the lock, tables.write().await.insert at the end *)
DealCheck ==
    /\ At("request_deal", "idle")
    /\ CanRead
    /\ \/ Goto("request_deal", "prepare")
       \/ Goto("request_deal", "idle")
    /\ UNCHANGED tables_lock

DealAwaitDone ==
    /\ pc["request_deal"] \in {"prepare", "generate", "submit"}
    /\ \/ Goto("request_deal", IF At("request_deal", "submit") THEN "insert"
                               ELSE NextWait(pc["request_deal"]))
       \/ Goto("request_deal", "idle")
    /\ UNCHANGED tables_lock

DealInsert ==
    /\ At("request_deal", "insert")
    /\ CanWrite
    /\ Goto("request_deal", "idle")
    /\ UNCHANGED tables_lock

(* get_player_cards: tables.read().await, the card positions copied,
   drop(tables), then resolve_hole_cards without the lock *)
CardsAcquire ==
    /\ At("get_player_cards", "ensured")
    /\ CanRead
    /\ tables_lock' = [tables_lock EXCEPT !.readers = @ + 1]
    /\ Goto("get_player_cards", "reading")

CardsRelease ==
    /\ At("get_player_cards", "reading")
    /\ tables_lock' = [tables_lock EXCEPT !.readers = @ - 1]
    /\ \/ Goto("get_player_cards", "resolve")
       \/ Goto("get_player_cards", "idle")

CardsResolved ==
    /\ At("get_player_cards", "resolve")
    /\ Goto("get_player_cards", "idle")
    /\ UNCHANGED tables_lock

lockVars == <<tables_lock, pc>>

LockInit ==
    /\ tables_lock = [writer |-> "none", readers |-> 0]
    /\ pc = [h \in Handlers |-> "idle"]

----------------------------------------------------------------------------
(* coordinator/src/hand_eval.rs: the coordinator's own hand evaluator *)

(* category << 20 | tiebreaker: every tiebreaker below is under 2^20 *)
Score(category, tb) == category * 1048576 + tb

score_five(cards) ==
    LET ranks == sort_desc([i \in 1..5 |-> cards[i] % NUM_RANKS])
        suits == [i \in 1..5 |-> cards[i] \div NUM_RANKS]
        is_flush == \A i \in 1..4 : suits[i] = suits[i + 1]
        is_straight == \A i \in 1..4 : ranks[i] = ranks[i + 1] + 1
        is_wheel == ranks = <<12, 3, 2, 1, 0>>
        freq(r) == Cardinality({i \in 1..5 : ranks[i] = r})
        fourset == {r \in 0..12 : freq(r) = 4}
        threeset == {r \in 0..12 : freq(r) = 3}
        pairset == {r \in 0..12 : freq(r) = 2}
        has_four == fourset # {}
        has_three == threeset # {}
        pair_count == Cardinality(pairset)
        four_rank == IF has_four THEN MinOf(fourset) ELSE 0
        three_rank == IF has_three THEN MinOf(threeset) ELSE 0
        pair_rank_hi == IF pair_count = 0 THEN 0 ELSE MaxOf(pairset)
        pair_rank_lo == IF pair_count < 2 THEN 0 ELSE MinOf(pairset)
        tb == Pack(Pack(Pack(Pack(ranks[1], ranks[2]), ranks[3]), ranks[4]), ranks[5])
    IN
    IF is_flush /\ is_straight /\ ranks[1] = 12 THEN Score(9, tb)
    ELSE IF is_flush /\ (is_straight \/ is_wheel) THEN
        Score(8, IF is_wheel THEN 3 * 65536 ELSE tb)
    ELSE IF has_four THEN Score(7, four_rank * 65536)
    ELSE IF has_three /\ pair_count >= 1 THEN Score(6, three_rank * 256 + pair_rank_hi)
    ELSE IF is_flush THEN Score(5, tb)
    ELSE IF is_straight \/ is_wheel THEN
        Score(4, IF is_wheel THEN 3 * 65536 ELSE ranks[1] * 65536)
    ELSE IF has_three THEN Score(3, three_rank * 65536)
    ELSE IF pair_count = 2 THEN Score(2, pair_rank_hi * 4096 + pair_rank_lo * 256)
    ELSE IF pair_count = 1 THEN Score(1, pair_rank_hi * 65536)
    ELSE tb

evaluate_hand_rank(cards) ==
    MaxOf({0} \cup {score_five(FiveOf(cards, ij[1], ij[2])) :
                        ij \in {x \in (1..7) \X (1..7) : x[1] < x[2]}})

(* The 7-card hands compared, one or two of every category; card = suit * 13
   + rank, rank 0 is the deuce and 12 the ace.  Hands of the same category
   differ in their kickers only. *)
EvalHands ==
    { <<12, 13, 27, 41, 3, 20, 35>>,    \* A 2 3 4 5 off suit, 9 J
      <<12, 25, 38, 13, 27, 41, 3>>,    \* A A A 2 3 4 5 off suit
      <<13, 27, 41, 3, 17, 11, 33>>,    \* 2 3 4 5 6 off suit, K 9
      <<8, 22, 36, 50, 12, 13, 27>>,    \* 10 J Q K A off suit, 2 3
      <<11, 24, 37, 51, 10, 13, 28>>,   \* K K K with A Q
      <<11, 24, 37, 51, 9, 13, 28>>,    \* K K K with A J
      <<11, 24, 33, 46, 51, 13, 28>>,   \* K K 9 9 with A
      <<11, 24, 33, 46, 36, 13, 28>>,   \* K K 9 9 with Q
      <<12, 25, 37, 46, 5, 14, 26>>,    \* A A with K 9 7
      <<12, 25, 36, 46, 5, 14, 26>>,    \* A A with Q 9 7
      <<12, 24, 33, 44, 3, 14, 26>>,    \* A K 9 7 5 high
      <<12, 25, 38, 51, 11, 13, 27>>,   \* A A A A with K
      <<12, 25, 38, 51, 10, 13, 27>>,   \* A A A A with Q
      <<0, 2, 4, 6, 8, 14, 27>>,        \* club flush, 10 high
      <<12, 25, 38, 11, 24, 0, 1>>,     \* A A A K K
      <<12, 0, 1, 2, 3, 20, 35>>,       \* A 2 3 4 5 of clubs
      <<8, 9, 10, 11, 12, 13, 27>>,     \* 10 J Q K A of clubs
      <<12, 25, 38, 11, 24, 37, 39>>,   \* A A A K K K
      <<12, 25, 11, 24, 36, 49, 0>>,    \* A A K K Q Q
      <<12, 25, 38, 51, 11, 24, 37>>,   \* A A A A K K K
      <<0, 2, 4, 6, 8, 10, 27>>,        \* six clubs, Q high
      <<0, 2, 4, 6, 8, 16, 27>>,        \* club flush over 2 3 4 5 6 off suit
      <<1, 15, 29, 43, 5, 19, 33>> }    \* 3 4 5 6 7 8 9 off suit

(* both evaluators on the hands compared, computed once *)
LedgerScores == [h \in EvalHands |-> evaluate_hand(h)]
CoordinatorScores == [h \in EvalHands |-> evaluate_hand_rank(h)]

NotRanked == [done |-> FALSE, ledger |-> <<0, 0>>, coordinator |-> <<0, 0>>]

(* the two hands of a showdown are scored by both evaluators *)
RankHands ==
    /\ hands # <<>>
    /\ ~ranked.done
    /\ ranked' = [done |-> TRUE,
                  ledger |-> <<LedgerScores[hands[1]], LedgerScores[hands[2]]>>,
                  coordinator |-> <<CoordinatorScores[hands[1]],
                                    CoordinatorScores[hands[2]]>>]
    /\ UNCHANGED hands

evalVars == <<hands, ranked>>

EvalIdle == hands = <<>> /\ ranked = NotRanked

----------------------------------------------------------------------------
(* services/coordinator: request_deal calls of one table running as tasks of
   the server (api/mod.rs).  A call reads the session's phase under a read
   guard that it drops at once, asks the nodes to prepare, has the proof
   generated and submitted, and takes the write guard only to insert the new
   session.  Every await of the handler is a point where another call runs. *)

NumDealCalls == 2   \* request_deal calls of the table that may be in flight
MaxDealFanouts == 3 \* prepare fan-outs of request_deal calls

DealCalls == 1..NumDealCalls

NoDeal == [at |-> "idle", share_set_id |-> 0]

dealVars == <<deals>>

DealIdle == deals = [d \in DealCalls |-> NoDeal]

DealAnswered(code, status, stage) == Answer("request_deal", "", code, status, stage)

(* the scoped read of state.tables: 409 unless the phase allows a deal *)
DealPhaseCheck(d) ==
    /\ deals[d].at = "idle"
    /\ IF coord # NoSession /\ coord.phase \notin {"waiting", "settlement"}
       THEN /\ response' = DealAnswered(409, "", "validate")
            /\ UNCHANGED deals
       ELSE /\ deals' = [deals EXCEPT ![d].at = "prepare"]
            /\ UNCHANGED response
    /\ UNCHANGED <<coord, workers, attempts, txs, configured, issued>>

(* mpc::prepare_deal_from_nodes: every node runs prepare_deal *)
DealPrepare(d) ==
    /\ deals[d].at = "prepare"
    /\ attempts < MaxDealFanouts
    /\ \E answers \in [Workers -> PrepareOutcomes] :
        LET env == [QuietEnv EXCEPT !.prepare = answers]
            share_set_id == attempts + 1
            prepared == prepare_from_nodes("deal", coord, "", OrchPlayers, env,
                                           share_set_id)
        IN /\ workers' = StatesOf(prepared)
           /\ attempts' = share_set_id
           /\ IF collect_prepared_share_sets(prepared)
              THEN /\ deals' = [deals EXCEPT ![d] = [at |-> "generate",
                                                     share_set_id |-> share_set_id]]
                   /\ UNCHANGED response
              ELSE /\ deals' = [deals EXCEPT ![d] = NoDeal]
                   /\ response' = DealAnswered(502, "", "prepare")
    /\ UNCHANGED <<coord, txs, configured, issued>>

(* mpc::generate_proof_from_share_sets, parse_deal_outputs and
   soroban::submit_deal_proof *)
DealGenerate(d) ==
    /\ deals[d].at = "generate"
    /\ \E proof \in {"ok", "failed"}, submit \in {"hash", "empty", "error"} :
        LET share_set_id == deals[d].share_set_id
            held == [w \in Workers |-> Prepared(TRUE, workers[w])]
            dispatched == dispatch_share_sets_from_nodes(held, QuietEnv, share_set_id)
            failed == IF \E w \in Workers : ~dispatched[w].ok THEN "dispatch"
                      ELSE IF proof # "ok" THEN "generate"
                      ELSE IF configured /\ submit = "error" THEN "submit"
                      ELSE ""
        IN /\ workers' = StatesOf(dispatched)
           /\ issued' = issued \cup {[label |-> "deal", nonce |-> share_set_id]}
           /\ IF failed # ""
              THEN /\ deals' = [deals EXCEPT ![d] = NoDeal]
                   /\ response' = DealAnswered(502, "", failed)
                   /\ UNCHANGED txs
              ELSE /\ deals' = [deals EXCEPT ![d].at = "insert"]
                   /\ txs' = IF configured /\ submit = "hash" THEN txs + 1 ELSE txs
                   /\ UNCHANGED response
    /\ UNCHANGED <<coord, attempts, configured>>

(* state.tables.write().await.insert(table_id, session) *)
DealInstall(d) ==
    /\ deals[d].at = "insert"
    /\ coord' = [TableSession("preflop") EXCEPT !.deal_tx_hash = txs]
    /\ response' = [DealAnswered(200, "dealt", "done") EXCEPT
                        !.tx_hash = txs,
                        !.session_id = [label |-> "deal",
                                        nonce |-> deals[d].share_set_id]]
    /\ deals' = [deals EXCEPT ![d] = NoDeal]
    /\ UNCHANGED <<workers, attempts, txs, configured, issued>>

----------------------------------------------------------------------------
(* services/node: POST /table/:id/dispatch-shares as a task of node 0
   (api.rs post_dispatch_shares).  The handler clones the share-set under a
   read guard, sends the fragments to the peers with no guard held, and takes
   the write guard to remove the share-set.  prepare-deal and prepare-reveal
   requests add the share-sets. *)

NumDispatchCalls == 2   \* dispatch-shares calls that may be in flight
MaxShareSets == 2       \* share-sets the node prepares

DispatchCalls == 1..NumDispatchCalls
ShareSets == 1..MaxShareSets

NoDispatch == [at |-> "idle", share_set_id |-> 0, code |-> 0]

dispatchVars == <<dispatches, deliveries>>

DispatchIdle ==
    /\ dispatches = [c \in DispatchCalls |-> NoDispatch]
    /\ deliveries = [id \in ShareSets |-> [delivered |-> 0, accepted |-> 0]]

clone_share_set(state, share_set_id) == share_set_id \in state.pending_share_sets

(* remove_share_set that answers without removing the share-set *)
remove_share_set_keeps(state, share_set_id) ==
    Prepared(share_set_id \in state.pending_share_sets, state)

remove_share_set(state, share_set_id) ==
    IF share_set_id \notin state.pending_share_sets THEN Prepared(FALSE, state)
    ELSE Prepared(TRUE, [state EXCEPT !.pending_share_sets = @ \ {share_set_id}])

(* a share-set id is drawn at random: one that was not handed out before *)
FreshShareSets ==
    {id \in ShareSets :
        /\ \A w \in Workers : id \notin workers[w].pending_share_sets
        /\ \A w \in Workers : workers[w].contribution # id
        /\ deliveries[id].delivered = 0
        /\ \A c \in DispatchCalls : dispatches[c].share_set_id # id}

NodePrepares ==
    \E id \in FreshShareSets, kind \in {"deal", "reveal"} :
        LET r == IF kind = "deal" THEN prepare_deal(workers[0], OrchPlayers, TRUE, id)
                 ELSE prepare_reveal(workers[0], "flop", 0, TRUE, id)
        IN /\ r.ok
           /\ workers' = [workers EXCEPT ![0] = r.state]
           /\ UNCHANGED <<dispatches, deliveries>>

DispatchClone(c) ==
    /\ dispatches[c].at = "idle"
    /\ \E id \in ShareSets :
        dispatches' = [dispatches EXCEPT ![c] =
            IF clone_share_set(workers[0], id)
            THEN [at |-> "send", share_set_id |-> id, code |-> 0]
            ELSE [at |-> "idle", share_set_id |-> id, code |-> 400]]
    /\ UNCHANGED <<workers, deliveries>>

(* dispatch_share_payloads: every peer took its fragment, or one did not *)
DispatchSend(c) ==
    /\ dispatches[c].at = "send"
    /\ \E peers_ok \in BOOLEAN :
        IF peers_ok
        THEN /\ dispatches' = [dispatches EXCEPT ![c].at = "remove"]
             /\ deliveries' = [deliveries EXCEPT ![dispatches[c].share_set_id].delivered = @ + 1]
        ELSE /\ dispatches' = [dispatches EXCEPT ![c].at = "idle", ![c].code = 502]
             /\ UNCHANGED deliveries
    /\ UNCHANGED workers

DispatchRemove(c) ==
    /\ dispatches[c].at = "remove"
    /\ LET id == dispatches[c].share_set_id
           r == remove_share_set(workers[0], id)
       IN /\ workers' = [workers EXCEPT ![0] = r.state]
          /\ dispatches' = [dispatches EXCEPT ![c].at = "idle",
                                              ![c].code = IF r.ok THEN 200 ELSE 400]
          /\ deliveries' = IF r.ok THEN [deliveries EXCEPT ![id].accepted = @ + 1]
                           ELSE deliveries

----------------------------------------------------------------------------
(* services/coordinator/mpc.rs trigger_and_collect_proof: generation is
   triggered on every node, then node 0 is polled once a second.  What a node
   answers to a request is the input of the step; `collect` is the call:
   the circuit, the polls sent so far, and "polling" or how the call
   returned. *)

ProofCircuits == {"deal_valid", "reveal_board_valid", "showdown_valid"}

(* a wait that polls once more for the showdown circuit *)
max_polls_showdown_longer(circuit_name) ==
    IF circuit_name = "showdown_valid" THEN 901 ELSE 300

max_polls(circuit_name) == IF circuit_name = "showdown_valid" THEN 900 ELSE 300

(* what node 0 answers to GET /session/:id/status, and to GET /session/:id/proof
   after "complete" *)
PollAnswers ==
    {"unreachable", "http_error", "malformed", "shares_received",
     "witness_generating", "proof_generating", "failed",
     "complete", "complete_fetch_fails"}

collectVars == <<collect>>

NoCollect == [circuit_name |-> "", polls |-> 0, returned |-> "idle"]

CollectIdle == collect = NoCollect

CollectRest == <<table, escrow, ledger, last, sessions, tasks, node_event,
                 coord, workers, response, attempts, txs, configured, issued,
                 tables_lock, pc, hands, ranked, deals, dispatches, deliveries,
                 lookup>>

(* POST /session/:id/generate to every node; any node may refuse *)
TriggerGeneration ==
    /\ collect.returned = "idle"
    /\ \E circuit_name \in ProofCircuits, triggered \in BOOLEAN :
        collect' = [circuit_name |-> circuit_name, polls |-> 0,
                    returned |-> IF NumWorkers = 0 THEN "Err: no endpoints"
                                 ELSE IF triggered THEN "polling"
                                 ELSE "Err: trigger failed"]

(* one pass of the loop `for _ in 0..max_polls` *)
PollNode0 ==
    /\ collect.returned = "polling"
    /\ collect.polls < max_polls(collect.circuit_name)
    /\ \E answer \in PollAnswers :
        collect' = [collect EXCEPT
            !.polls = @ + 1,
            !.returned =
                CASE answer = "unreachable"          -> "Err: failed to poll node 0"
                  [] answer = "http_error"           -> "polling"
                  [] answer = "malformed"            -> "Err: failed to parse status"
                  [] answer = "complete"             -> "Ok: proof"
                  [] answer = "complete_fetch_fails" -> "Err: proof fetch failed"
                  [] answer = "failed"               -> "Err: proof generation failed"
                  [] OTHER                           -> "polling"]

(* the loop ran out *)
PollsExhausted ==
    /\ collect.returned = "polling"
    /\ collect.polls >= max_polls(collect.circuit_name)
    /\ collect' = [collect EXCEPT !.returned = "Err: timed out"]

----------------------------------------------------------------------------
(* services/coordinator/mpc.rs resolve_hole_cards over three nodes.  A node's
   contribution is a permutation of the deck slots and one salt per slot
   (private_table.rs PartyContribution); its perm-lookup answers, for each
   index asked, the slot the permutation maps it to and the salt at the
   index.  Salts are u64 numbers written in decimal; three of them are added
   in u128, so the sum does not wrap. *)

DeckSlots == 3      \* deck positions 0..DeckSlots-1 of a node's permutation

Slots == 0..(DeckSlots - 1)

(* a permutation as the sequence of its images: slot i maps to perm[i + 1] *)
SlotPermutations == {f \in [1..DeckSlots -> Slots] : \A i, j \in 1..DeckSlots : f[i] = f[j] => i = j}

SaltChoices == {[i \in 1..DeckSlots |-> 2 ^ (i - 1)], [i \in 1..DeckSlots |-> 2 ^ (i + 2)]}

Contributions == [permutation : SlotPermutations, salts : SaltChoices]

PositionChoices == {<<0, 1>>, <<2, 0>>, <<1, 1>>}

(* POST /table/:id/perm-lookup of a node *)
perm_lookup(contribution, indices) ==
    [mapped_indices |-> [k \in 1..Len(indices) |-> contribution.permutation[indices[k] + 1]],
     salts          |-> [k \in 1..Len(indices) |-> contribution.salts[indices[k] + 1]]]

(* resolve_hole_cards that chains the lookups node0, node1, node2 *)
resolve_hole_cards_reversed(nodes, card_positions) ==
    IF Len(nodes) # 3 THEN [ok |-> FALSE, cards |-> <<>>, salts |-> <<>>]
    ELSE
    LET resp0 == perm_lookup(nodes[1], card_positions)
        resp1 == perm_lookup(nodes[2], card_positions)
        resp2 == perm_lookup(nodes[3], card_positions)
        step1 == resp0.mapped_indices
        step2 == perm_lookup(nodes[2], step1).mapped_indices
        final_cards == perm_lookup(nodes[3], step2).mapped_indices
    IN [ok |-> TRUE, cards |-> final_cards,
        salts |-> [i \in 1..Len(card_positions) |->
                      resp0.salts[i] + resp1.salts[i] + resp2.salts[i]]]

(* nodes: the contributions behind node_endpoints, nodes[1] is node 0 *)
resolve_hole_cards(nodes, card_positions) ==
    IF Len(nodes) # 3 THEN [ok |-> FALSE, cards |-> <<>>, salts |-> <<>>]
    ELSE
    LET resp0 == perm_lookup(nodes[1], card_positions)
        resp1 == perm_lookup(nodes[2], card_positions)
        resp2 == perm_lookup(nodes[3], card_positions)
        step1 == resp2.mapped_indices
        step2 == perm_lookup(nodes[2], step1).mapped_indices
        final_cards == perm_lookup(nodes[1], step2).mapped_indices
    IN [ok |-> TRUE, cards |-> final_cards,
        salts |-> [i \in 1..Len(card_positions) |->
                      resp0.salts[i] + resp1.salts[i] + resp2.salts[i]]]

lookupVars == <<lookup>>

NotResolved == [ok |-> FALSE, cards |-> <<>>, salts |-> <<>>]

LookupIdle == lookup = [nodes |-> <<>>, card_positions |-> <<>>, asked |-> FALSE,
                        result |-> NotResolved]

LookupRest == <<table, escrow, ledger, last, sessions, tasks, node_event,
                coord, workers, response, attempts, txs, configured, issued,
                tables_lock, pc, hands, ranked, deals, dispatches, deliveries,
                collect>>

ResolveHoleCards ==
    /\ ~lookup.asked
    /\ lookup' = [lookup EXCEPT
                     !.asked = TRUE,
                     !.result = resolve_hole_cards(lookup.nodes, lookup.card_positions)]
    /\ UNCHANGED LookupRest

----------------------------------------------------------------------------
(* Specifications: each component runs with the others at rest *)

vars == <<table, escrow, ledger, last, sessions, tasks, node_event,
          coord, workers, response, attempts, txs, configured,
          issued, tables_lock, pc, hands, ranked, deals,
          dispatches, deliveries, collect, lookup>>

Init == ContractInit /\ NodeInit /\ OrchInit /\ LockInit /\ EvalIdle /\ DealIdle /\ DispatchIdle /\ CollectIdle /\ LookupIdle /\ configured = TRUE

Next ==
    \/ JoinTable /\ UNCHANGED <<nodeVars, orchVars, lockVars, evalVars, dealVars, dispatchVars, collectVars, lookupVars>>
    \/ LeaveTable /\ UNCHANGED <<nodeVars, orchVars, lockVars, evalVars, dealVars, dispatchVars, collectVars, lookupVars>>
    \/ StartHand /\ UNCHANGED <<nodeVars, orchVars, lockVars, evalVars, dealVars, dispatchVars, collectVars, lookupVars>>
    \/ CommitDeal /\ UNCHANGED <<nodeVars, orchVars, lockVars, evalVars, dealVars, dispatchVars, collectVars, lookupVars>>
    \/ PlayerAction /\ UNCHANGED <<nodeVars, orchVars, lockVars, evalVars, dealVars, dispatchVars, collectVars, lookupVars>>
    \/ RevealBoard /\ UNCHANGED <<nodeVars, orchVars, lockVars, evalVars, dealVars, dispatchVars, collectVars, lookupVars>>
    \/ SubmitShowdown /\ UNCHANGED <<nodeVars, orchVars, lockVars, evalVars, dealVars, dispatchVars, collectVars, lookupVars>>
    \/ ClaimTimeout /\ UNCHANGED <<nodeVars, orchVars, lockVars, evalVars, dealVars, dispatchVars, collectVars, lookupVars>>
    \/ LedgerClose /\ UNCHANGED <<nodeVars, orchVars, lockVars, evalVars, dealVars, dispatchVars, collectVars, lookupVars>>

Spec == Init /\ [][Next]_vars

NextNode ==
    \/ post_shares /\ UNCHANGED <<contractVars, orchVars, lockVars, evalVars, dealVars, dispatchVars, collectVars, lookupVars>>
    \/ post_generate /\ UNCHANGED <<contractVars, orchVars, lockVars, evalVars, dealVars, dispatchVars, collectVars, lookupVars>>
    \/ generation_task /\ UNCHANGED <<contractVars, orchVars, lockVars, evalVars, dealVars, dispatchVars, collectVars, lookupVars>>
    \/ get_status /\ UNCHANGED <<contractVars, orchVars, lockVars, evalVars, dealVars, dispatchVars, collectVars, lookupVars>>
    \/ get_proof /\ UNCHANGED <<contractVars, orchVars, lockVars, evalVars, dealVars, dispatchVars, collectVars, lookupVars>>

SpecNode == Init /\ [][NextNode]_vars

(* the coordinator runs with or without a ledger configured *)
InitOrch == ContractInit /\ NodeInit /\ OrchInit /\ LockInit /\ EvalIdle /\ DealIdle /\ DispatchIdle /\ CollectIdle /\ LookupIdle /\ configured \in BOOLEAN

NextOrch ==
    \/ RequestDeal /\ UNCHANGED <<contractVars, nodeVars, lockVars, evalVars, dealVars, dispatchVars, collectVars, lookupVars>>
    \/ RequestReveal /\ UNCHANGED <<contractVars, nodeVars, lockVars, evalVars, dealVars, dispatchVars, collectVars, lookupVars>>
    \/ RequestShowdown /\ UNCHANGED <<contractVars, nodeVars, lockVars, evalVars, dealVars, dispatchVars, collectVars, lookupVars>>

SpecOrch == InitOrch /\ [][NextOrch]_vars

(* players act on the ledger, the coordinator acts as the committee *)
NextTable ==
    \/ JoinOnLedger /\ UNCHANGED <<nodeVars, orchVars, lockVars, evalVars, dealVars, dispatchVars, collectVars, lookupVars>>
    \/ StartHand /\ UNCHANGED <<nodeVars, orchVars, lockVars, evalVars, dealVars, dispatchVars, collectVars, lookupVars>>
    \/ PlayerAction /\ UNCHANGED <<nodeVars, orchVars, lockVars, evalVars, dealVars, dispatchVars, collectVars, lookupVars>>
    \/ ClaimTimeout /\ UNCHANGED <<nodeVars, orchVars, lockVars, evalVars, dealVars, dispatchVars, collectVars, lookupVars>>
    \/ LedgerClose /\ UNCHANGED <<nodeVars, orchVars, lockVars, evalVars, dealVars, dispatchVars, collectVars, lookupVars>>
    \/ DealOnLedger /\ UNCHANGED <<nodeVars, lockVars, evalVars, dealVars, dispatchVars, collectVars, lookupVars>>
    \/ RevealOnLedger /\ UNCHANGED <<nodeVars, lockVars, evalVars, dealVars, dispatchVars, collectVars, lookupVars>>
    \/ ShowdownOnLedger /\ UNCHANGED <<nodeVars, lockVars, evalVars, dealVars, dispatchVars, collectVars, lookupVars>>

SpecTable == Init /\ [][NextTable]_vars

(* the handlers of the coordinator as concurrent tasks around the lock *)
NextLock ==
    \/ \E h \in SessionWriters \cup {"get_player_cards"} :
          EnsureSession(h) /\ UNCHANGED <<contractVars, nodeVars, orchVars, evalVars, dealVars, dispatchVars, collectVars, lookupVars>>
    \/ \E h \in SessionWriters :
          AcquireSession(h) /\ UNCHANGED <<contractVars, nodeVars, orchVars, evalVars, dealVars, dispatchVars, collectVars, lookupVars>>
    \/ \E h \in SessionWriters :
          Bookkeeping(h) /\ UNCHANGED <<contractVars, nodeVars, orchVars, evalVars, dealVars, dispatchVars, collectVars, lookupVars>>
    \/ \E h \in SessionWriters :
          AwaitDone(h) /\ UNCHANGED <<contractVars, nodeVars, orchVars, evalVars, dealVars, dispatchVars, collectVars, lookupVars>>
    \/ \E h \in SessionWriters :
          UpdateSession(h) /\ UNCHANGED <<contractVars, nodeVars, orchVars, evalVars, dealVars, dispatchVars, collectVars, lookupVars>>
    \/ DealCheck /\ UNCHANGED <<contractVars, nodeVars, orchVars, evalVars, dealVars, dispatchVars, collectVars, lookupVars>>
    \/ DealAwaitDone /\ UNCHANGED <<contractVars, nodeVars, orchVars, evalVars, dealVars, dispatchVars, collectVars, lookupVars>>
    \/ DealInsert /\ UNCHANGED <<contractVars, nodeVars, orchVars, evalVars, dealVars, dispatchVars, collectVars, lookupVars>>
    \/ CardsAcquire /\ UNCHANGED <<contractVars, nodeVars, orchVars, evalVars, dealVars, dispatchVars, collectVars, lookupVars>>
    \/ CardsRelease /\ UNCHANGED <<contractVars, nodeVars, orchVars, evalVars, dealVars, dispatchVars, collectVars, lookupVars>>
    \/ CardsResolved /\ UNCHANGED <<contractVars, nodeVars, orchVars, evalVars, dealVars, dispatchVars, collectVars, lookupVars>>

SpecLock == Init /\ [][NextLock]_vars

NextHands == RequestInTurn /\ UNCHANGED <<contractVars, nodeVars, lockVars, evalVars, dealVars, dispatchVars, collectVars, lookupVars>>

SpecHands == Init /\ [][NextHands]_vars

(* the table is played hand after hand; a hand ends by a fold or a timeout *)
NextRounds ==
    \/ JoinTable /\ UNCHANGED <<nodeVars, orchVars, lockVars, evalVars, dealVars, dispatchVars, collectVars, lookupVars>>
    \/ LeaveTable /\ UNCHANGED <<nodeVars, orchVars, lockVars, evalVars, dealVars, dispatchVars, collectVars, lookupVars>>
    \/ StartNextHand /\ UNCHANGED <<nodeVars, orchVars, lockVars, evalVars, dealVars, dispatchVars, collectVars, lookupVars>>
    \/ CommitDeal /\ UNCHANGED <<nodeVars, orchVars, lockVars, evalVars, dealVars, dispatchVars, collectVars, lookupVars>>
    \/ PlayerAction /\ UNCHANGED <<nodeVars, orchVars, lockVars, evalVars, dealVars, dispatchVars, collectVars, lookupVars>>
    \/ ClaimTimeout /\ UNCHANGED <<nodeVars, orchVars, lockVars, evalVars, dealVars, dispatchVars, collectVars, lookupVars>>
    \/ LedgerClose /\ UNCHANGED <<nodeVars, orchVars, lockVars, evalVars, dealVars, dispatchVars, collectVars, lookupVars>>

SpecRounds == Init /\ [][NextRounds]_vars

(* request_deal calls of one table overlapping in time *)
NextDeals ==
    \/ \E d \in DealCalls :
          DealPhaseCheck(d) /\ UNCHANGED <<contractVars, nodeVars, lockVars, evalVars,
                                         dispatchVars, collectVars, lookupVars>>
    \/ \E d \in DealCalls :
          DealPrepare(d) /\ UNCHANGED <<contractVars, nodeVars, lockVars, evalVars,
                                         dispatchVars, collectVars, lookupVars>>
    \/ \E d \in DealCalls :
          DealGenerate(d) /\ UNCHANGED <<contractVars, nodeVars, lockVars, evalVars,
                                         dispatchVars, collectVars, lookupVars>>
    \/ \E d \in DealCalls :
          DealInstall(d) /\ UNCHANGED <<contractVars, nodeVars, lockVars, evalVars,
                                         dispatchVars, collectVars, lookupVars>>

SpecDeals == InitOrch /\ [][NextDeals]_vars

(* the requests of a table as the server takes them: request_reveal and
   request_showdown hold the write guard from start to end and so run one at
   a time, request_deal calls run beside them *)
NextServed ==
    \/ NextDeals
    \/ /\ attempts < MaxDealFanouts
       /\ RequestInTurn
       /\ UNCHANGED <<contractVars, nodeVars, lockVars, evalVars, dealVars, dispatchVars, collectVars, lookupVars>>

SpecServed == Init /\ [][NextServed]_vars

(* dispatch-shares calls of node 0 overlapping in time *)
DispatchRest == <<table, escrow, ledger, last, sessions, tasks, node_event,
                  coord, response, attempts, txs, configured, issued,
                  tables_lock, pc, hands, ranked, deals, collect, lookup>>

NextDispatch ==
    \/ NodePrepares /\ UNCHANGED DispatchRest
    \/ \E c \in DispatchCalls : DispatchClone(c) /\ UNCHANGED DispatchRest
    \/ \E c \in DispatchCalls : DispatchSend(c) /\ UNCHANGED DispatchRest
    \/ \E c \in DispatchCalls : DispatchRemove(c) /\ UNCHANGED DispatchRest

SpecDispatch == Init /\ [][NextDispatch]_vars

(* one proof wait; the task is scheduled and every request it sends is
   answered, so the step it is at is taken *)
NextCollect ==
    \/ TriggerGeneration /\ UNCHANGED CollectRest
    \/ PollNode0 /\ UNCHANGED CollectRest
    \/ PollsExhausted /\ UNCHANGED CollectRest

SpecCollect ==
    /\ Init
    /\ [][NextCollect]_vars
    /\ WF_vars(TriggerGeneration /\ UNCHANGED CollectRest)
    /\ WF_vars(PollNode0 /\ UNCHANGED CollectRest)
    /\ WF_vars(PollsExhausted /\ UNCHANGED CollectRest)

(* resolve_hole_cards on the contributions of two or three nodes *)
InitLookup ==
    /\ ContractInit /\ NodeInit /\ OrchInit /\ LockInit /\ EvalIdle /\ DealIdle
    /\ DispatchIdle /\ CollectIdle /\ configured = TRUE
    /\ \E n \in {2, 3} :
          lookup \in [nodes : [1..n -> Contributions], card_positions : PositionChoices,
                      asked : {FALSE}, result : {NotResolved}]

NextLookup == ResolveHoleCards

SpecLookup == InitLookup /\ [][NextLookup]_vars

(* two hands are drawn and scored by the evaluator of each side *)
InitEval ==
    /\ ContractInit /\ NodeInit /\ OrchInit /\ LockInit /\ DealIdle /\ DispatchIdle /\ CollectIdle /\ LookupIdle /\ configured = TRUE
    /\ hands \in EvalHands \X EvalHands
    /\ ranked = NotRanked

NextEval == RankHands /\ UNCHANGED <<contractVars, nodeVars, orchVars, lockVars, dealVars, dispatchVars, collectVars, lookupVars>>

SpecEval == InitEval /\ [][NextEval]_vars

----------------------------------------------------------------------------
(* Properties of the contract *)

Stacks(t) == SumSeq([i \in 1..Len(t.players) |-> t.players[i].stack])

NonFolded(t) == {i \in 1..Len(t.players) : ~t.players[i].folded}

(* a player_action call has just returned Ok *)
ActionAccepted == last'.op = "player_action" /\ last'.ok /\ ledger' = ledger

(* a player_action call has just returned an error *)
ActionRejected == last'.op = "player_action" /\ ~last'.ok /\ ledger' = ledger

(* C1: the seated players' stacks plus the pot always equal the buy-ins paid
   in minus the stacks paid out by leave_table. *)
Conservation == Stacks(table) + table.pot = escrow

(* a hand was played to its settlement and a player then left with chips *)
ConservationWitness ==
    /\ last.op = "leave_table"
    /\ table.hand_number = 1
    /\ table.phase = "Settlement"
    /\ table.players # <<>>
    /\ escrow > 0

(* C2: in every betting phase current_turn is the index of a seated player
   who is neither folded nor all-in. *)
TurnValidity ==
    table.phase \in BettingPhases =>
        /\ table.current_turn < NumPlayers(table)
        /\ ~GetP(table, table.current_turn).folded
        /\ ~GetP(table, table.current_turn).all_in

AllBetsMatched(t) ==
    \A i \in 1..Len(t.players) :
        (~t.players[i].folded /\ ~t.players[i].all_in)
            => t.players[i].bet_this_round = max_bet_this_round(t)

OneStep(phase) ==
    CASE phase = "Preflop" -> "DealingFlop"
      [] phase = "Flop"    -> "DealingTurn"
      [] phase = "Turn"    -> "DealingRiver"
      [] phase = "River"   -> "Showdown"
      [] OTHER             -> "none"

(* C3: after a successful player_action that does not end the hand, the phase
   advances exactly one step iff every non-folded, non-all-in player's bet
   equals the maximum bet; otherwise the phase is unchanged and the turn
   passes to another seat. *)
RoundClosure ==
    [][ (ActionAccepted /\ table'.phase # "Settlement") =>
            IF AllBetsMatched(table')
            THEN table'.phase = OneStep(table.phase)
            ELSE /\ table'.phase = table.phase
                 /\ table'.current_turn # table.current_turn ]_vars

(* a Call closed the round with a short all-in player left behind the bet *)
RoundClosureWitness ==
    /\ last.op = "player_action" /\ last.ok /\ last.arg = "Call"
    /\ table.phase = "DealingFlop"
    /\ \E i \in NonFolded(table) :
          /\ table.players[i].all_in
          /\ table.players[i].bet_this_round < max_bet_this_round(table)

SumAmounts(pots) == SumSeq([k \in 1..Len(pots) |-> pots[k].amount])

ToSet(s) == {s[k] : k \in 1..Len(s)}

(* C6: while a hand is being bet, the amounts of the pots calculate_side_pots
   computes sum to the table's pot, and each pot built at an all-in level is
   eligible to exactly the non-folded players whose bet is at least that
   level. *)
SidePotCorrectness ==
    LET pots == calculate_side_pots(table) IN
    table.phase \in BettingPhases =>
    /\ SumAmounts(pots) = table.pot
    /\ \A k \in 1..Len(pots) :
          pots[k].level > 0 =>
             ToSet(pots[k].eligible_players)
                = {table.players[i].seat_index :
                      i \in {j \in NonFolded(table) :
                                table.players[j].bet_this_round >= pots[k].level}}

PhaseOrder ==
    <<"Waiting", "Dealing", "Preflop", "DealingFlop", "Flop", "DealingTurn", "Turn",
      "DealingRiver", "River", "Showdown", "Settlement">>

PhaseRank(phase) == CHOOSE k \in 1..Len(PhaseOrder) : PhaseOrder[k] = phase

(* C7: within one hand the stored phase never moves back, and only a
   successful start_hand sets the phase to Dealing. *)
PhaseMonotonic ==
    [][ /\ table'.hand_number = table.hand_number
            => PhaseRank(table'.phase) >= PhaseRank(table.phase)
        /\ (table'.phase = "Dealing" /\ table'.hand_number # table.hand_number)
            => /\ last'.op = "start_hand"
               /\ table'.hand_number = table.hand_number + 1
        /\ table'.phase = "Dealing" => table'.hand_number # table.hand_number
                                        \/ table.phase = "Dealing" ]_vars

(* a hand went through every phase up to the showdown and was settled *)
PhaseMonotonicWitness ==
    /\ last.op = "submit_showdown"
    /\ table.phase = "Settlement"
    /\ Len(table.board_cards) = 5

(* C8: a successful Fold that leaves exactly one non-folded player settles
   the hand at once: phase Settlement, pot 0, the remaining player's stack
   grown by the whole pot, the turn not advanced. *)
FoldWinSettles ==
    [][ (ActionAccepted /\ last'.arg = "Fold" /\ Cardinality(NonFolded(table')) = 1
            /\ Len(table'.players) = Len(table.players)) =>
            /\ table'.phase = "Settlement"
            /\ table'.pot = 0
            /\ \A i \in NonFolded(table') :
                  table'.players[i].stack = table.players[i].stack + table.pot
            /\ table'.current_turn = table.current_turn ]_vars

(* C10: a player_action call that returns an error leaves the stored table
   exactly as it was. *)
FailedActionKeepsTable ==
    [][ ActionRejected => table' = table ]_vars

(* a Fold was rejected after the working copy had been changed *)
FailedActionWitness ==
    /\ last.op = "player_action" /\ ~last.ok
    /\ table.phase \in BettingPhases
    /\ \E player \in Addresses :
          LET r == player_action(table, player, [kind |-> "Fold", amount |-> 0], ledger)
          IN ~r.ok /\ r.table # table

----------------------------------------------------------------------------
(* Properties of the node's proof-session registry *)

(* the step is a generate request for a session that holds fragments from
   fewer source parties than it expects *)
GenerateWhileIncomplete ==
    /\ node_event'.op = "post_generate"
    /\ node_event'.session_id \in DOMAIN sessions
    /\ LET session == sessions[node_event'.session_id] IN
       /\ session.expected_total_parties # 0
       /\ Cardinality(session.partial_share_paths) < session.expected_total_parties

(* C5, as the code has it: a generate request for a session with incomplete
   fragments is accepted (202) and runs nothing itself; the generation it
   starts fails with "incomplete share fragments" before any merge or prover
   step, and leaves the session Failed, not Complete. *)
FragmentGating ==
    [][ /\ GenerateWhileIncomplete =>
            /\ node_event'.code = 202
            /\ ~node_event'.merged
            /\ sessions'[node_event'.session_id].status = Status("WitnessGenerating")
        /\ \A task \in tasks \ tasks' :
            Cardinality(task.partial_share_paths) < task.expected_total_parties =>
                /\ node_event'.op = "generation_task"
                /\ ~node_event'.merged
                /\ sessions'[task.session_id].status =
                      Failed("incomplete share fragments",
                             Cardinality(task.partial_share_paths),
                             task.expected_total_parties) ]_vars

(* a generation started with one fragment of two has failed at the gate *)
FragmentGatingWitness ==
    /\ node_event.op = "generation_task"
    /\ "s1" \in DOMAIN sessions
    /\ sessions["s1"].status = Failed("incomplete share fragments", 1, 2)
    /\ ~node_event.merged

(* C5, as stated: the generate call itself fails with the reason "incomplete
   share fragments". *)
GenerateCallRejected ==
    [][ GenerateWhileIncomplete =>
            /\ node_event'.code >= 400
            /\ node_event'.body.reason = "incomplete share fragments" ]_vars

----------------------------------------------------------------------------
(* Coordinator properties, checked under SpecOrch *)

RevealAnswered == response'.op = "request_reveal" /\ response'.code # 429

(* C4: once request_reveal for a phase has succeeded and recorded a tx hash,
   a further request_reveal for that phase answers successfully with the
   recorded cards and tx hash and contacts no Worker *)
RevealIdempotent ==
    [][ ( /\ RevealAnswered
          /\ coord # NoSession
          /\ response'.phase \in DOMAIN coord.reveal_tx_hashes )
        => /\ response'.code = 200
           /\ response'.tx_hash = coord.reveal_tx_hashes[response'.phase]
           /\ response'.cards = coord.revealed_cards_by_phase[response'.phase]
           /\ workers' = workers
           /\ attempts' = attempts ]_vars

PrepareAborted ==
    /\ response'.code = 502
    /\ response'.stage = "prepare"
    /\ attempts' = attempts + 1

(* C9: when a Worker rejects or is unreachable during the prepare fan-out,
   no share-set of that attempt stays pending at any Worker and no Worker's
   private contribution has been replaced *)
PrepareAbortClean ==
    [][ PrepareAborted
        => \A w \in Workers :
              /\ attempts' \notin workers'[w].pending_share_sets
              /\ workers'[w].contribution = workers[w].contribution ]_vars

----------------------------------------------------------------------------
(* The coordinator on the ledger, checked under SpecTable *)

(* a request_showdown step whose showdown proof the ledger, holding the table
   in Showdown, rejected: the handler went on to the timeout claim *)
ShowdownProofRejected ==
    /\ table.phase = "Showdown"
    /\ attempts' = attempts + 1
    /\ response'.op = "request_showdown"
    /\ \/ response'.stage = "submit"
       \/ response'.stage = "done" /\ response'.status = "settled_timeout"

TimeoutReached == ledger - table.last_action_ledger >= config.timeout_ledgers

(* C11: when the ledger rejects a showdown proof the coordinator submits
   claim_timeout; once the timeout window of the table has passed the table
   reaches Settlement, the session phase becomes settlement and the status is
   settled_timeout; before that the claim is rejected, the request fails with
   502 and table and session phase stay as they were *)
TimeoutFallback ==
    [][ ShowdownProofRejected
        => IF TimeoutReached
           THEN /\ response'.code = 200
                /\ response'.status = "settled_timeout"
                /\ table'.phase = "Settlement"
                /\ table'.pot = 0
                /\ coord'.phase = "settlement"
           ELSE /\ response'.code = 502
                /\ table' = table
                /\ coord'.phase # "settlement" ]_vars

TimeoutFallbackWitness ==
    /\ response.op = "request_showdown"
    /\ response.stage = "done"
    /\ response.status = "settled_timeout"
    /\ table.phase = "Settlement"
    /\ coord.phase = "settlement"

(* C11 as stated: every rejected showdown proof ends with the table in
   Settlement, the session in settlement and status settled_timeout *)
RejectedShowdownSettles ==
    [][ ShowdownProofRejected
        => /\ table'.phase = "Settlement"
           /\ coord'.phase = "settlement"
           /\ response'.status = "settled_timeout" ]_vars

----------------------------------------------------------------------------
(* The table-session lock, checked under SpecLock *)

(* C12: while request_reveal or request_showdown waits for the nodes or the
   ledger, it does not hold the lock around the table sessions, so a reader
   such as get_player_cards is not kept waiting *)
LockFreeDuringProofWait ==
    \A h \in SessionWriters :
        pc[h] \in ProofWait =>
            /\ tables_lock.writer # h
            /\ (At("get_player_cards", "ensured") => CanRead)

----------------------------------------------------------------------------
(* Proof-session ids, checked under SpecHands *)

(* C15: every proof-session id the coordinator issues for the table differs
   from every id it issued before, over all deals, reveals and showdowns of
   all hands *)
FreshProofSessionIds ==
    [][ attempts' = attempts + 1
        => IssuedBy(response', coord', attempts') \cap issued = {} ]_vars

----------------------------------------------------------------------------
(* The proof-session registry of a node, checked under SpecNode *)

StatusRank(status) ==
    CASE status.tag = "SharesReceived"    -> 0
      [] status.tag = "WitnessGenerating" -> 1
      [] status.tag = "ProofGenerating"   -> 2
      [] OTHER                            -> 3

Terminal(status) == status.tag \in {"Complete", "Failed"}

(* C13: the status of a proof session only moves forward along
   SharesReceived, WitnessGenerating, ProofGenerating, Complete | Failed, and
   a Complete or Failed session keeps its status whatever fragment or
   generate request arrives later *)
StatusMovesForward ==
    [][ \A id \in DOMAIN sessions :
            /\ StatusRank(sessions'[id].status) >= StatusRank(sessions[id].status)
            /\ Terminal(sessions[id].status)
                   => sessions'[id].status = sessions[id].status ]_vars

(* a post_shares answered 200 for a session that already holds a fragment of
   every source the request can have named: accepted fragments always store
   their source, so an accepted one that adds no source is a duplicate *)
DuplicateAccepted ==
    /\ node_event'.op = "post_shares"
    /\ node_event'.code = 200
    /\ node_event'.session_id \in DOMAIN sessions
    /\ sessions'[node_event'.session_id].partial_share_paths
         = sessions[node_event'.session_id].partial_share_paths

(* C14: a fragment from a source party that has already delivered one to the
   session is rejected as a protocol error *)
DuplicateSourceRejected == [][ ~DuplicateAccepted ]_vars

----------------------------------------------------------------------------
(* The two hand evaluators, checked under SpecEval *)

Compare(x, y) == IF x > y THEN 1 ELSE IF x < y THEN -1 ELSE 0

(* C16: the coordinator's evaluator and the ledger's evaluator order every
   pair of 7-card hands identically: higher, equal or lower under one exactly
   when under the other *)
EvaluatorsAgree ==
    ranked.done =>
        Compare(ranked.ledger[1], ranked.ledger[2])
            = Compare(ranked.coordinator[1], ranked.coordinator[2])

RanksOf(h) == {h[i] % NUM_RANKS : i \in 1..7}

(* the best five cards of h are A-2-3-4-5 not all of one suit: the five ranks
   are there, no six makes a higher straight, and no five cards share a suit
   (two cards beside the wheel cannot make a full house or better) *)
IsWheelHand(h) ==
    /\ {12, 0, 1, 2, 3} \subseteq RanksOf(h)
    /\ 4 \notin RanksOf(h)
    /\ \A s \in 0..3 : Cardinality({i \in 1..7 : h[i] \div NUM_RANKS = s}) < 5

(* C17: a hand whose best five cards are an off-suit A-2-3-4-5 is a Straight
   (category 4) ranked 5-high: below every straight 6-high or better, above
   every hand of category three of a kind or lower *)
WheelIsFiveHigh ==
    ranked.done /\ IsWheelHand(hands[1]) =>
        /\ HandRank_category(ranked.ledger[1]) = 4
        /\ ranked.ledger[1] % 16777216 = 3
        /\ (HandRank_category(ranked.ledger[2]) = 4 /\ ~IsWheelHand(hands[2])
                => ranked.ledger[1] < ranked.ledger[2])
        /\ (HandRank_category(ranked.ledger[2]) <= 3
                => ranked.ledger[1] > ranked.ledger[2])

WheelIsFiveHighWitness ==
    /\ ranked.done
    /\ IsWheelHand(hands[1])
    /\ 12 \in RanksOf(hands[1]) /\ Cardinality(RanksOf(hands[1])) = 5
    /\ HandRank_category(ranked.ledger[2]) = 4
    /\ RanksOf(hands[2]) = {0, 1, 2, 3, 4, 7, 11}

----------------------------------------------------------------------------
(* Timeouts on the ledger, checked under Spec *)

(* the hand was settled to the one player left in it *)
SettledToLastPlayer(before, after) ==
    /\ after.phase = "Settlement"
    /\ after.pot = 0
    /\ Cardinality(NonFolded(after)) = 1
    /\ \A i \in 1..Len(after.players) :
          after.players[i].stack =
              before.players[i].stack + (IF i \in NonFolded(after) THEN before.pot ELSE 0)

(* the turn is at a seat that can act *)
TurnCanAct(t) ==
    /\ t.current_turn < NumPlayers(t)
    /\ ~GetP(t, t.current_turn).folded
    /\ ~GetP(t, t.current_turn).all_in

(* C18: before the timeout window has passed claim_timeout is rejected with
   TimeoutNotReached and the table is unchanged; after it, in a betting
   phase, the player at current_turn is folded and the hand is either settled
   to the single player left or the turn moves to the next seat that is
   neither folded nor all-in *)
TimeoutFoldsAndMoves ==
    LET r == claim_timeout(table, ledger) IN
    /\ ~TimeoutReached =>
          ~r.ok /\ r.err = "TimeoutNotReached" /\ stored(table, r) = table
    /\ TimeoutReached /\ table.phase \in BettingPhases =>
          /\ r.ok
          /\ GetP(r.table, table.current_turn).folded
          /\ \/ SettledToLastPlayer(table, r.table)
             \/ /\ r.table.phase = table.phase
                /\ TurnCanAct(r.table)

CommitteePhases == {"Dealing", "DealingFlop", "DealingTurn", "DealingRiver", "Showdown"}

(* C19: a claim_timeout that succeeds while the committee is due pays every
   non-folded player floor(pot / n), n the number of non-folded players, the
   first non-folded seat the remainder as well and folded players nothing,
   empties the pot and ends in Settlement *)
CommitteeTimeoutRefunds ==
    LET r == claim_timeout(table, ledger)
        n == Cardinality(NonFolded(table))
    IN
    table.phase \in CommitteePhases /\ r.ok =>
        /\ n > 0
        /\ r.table.pot = 0
        /\ r.table.phase = "Settlement"
        /\ \A i \in 1..Len(table.players) :
              r.table.players[i].stack =
                  table.players[i].stack
                  + (IF i \notin NonFolded(table) THEN 0
                     ELSE (table.pot \div n)
                          + (IF i = MinOf(NonFolded(table)) THEN table.pot % n ELSE 0))

(* the refund has been paid with a remainder to a hand that had a folded
   player: 1 or 2 chips in the stacks of the two players left, remainder 1 *)
CommitteeTimeoutWitness ==
    /\ last.op = "claim_timeout"
    /\ table.phase = "Settlement"
    /\ Cardinality(NonFolded(table)) = 2
    /\ Len(table.players) = 3
    /\ table.players[MinOf(NonFolded(table))].stack
         > table.players[MaxOf(NonFolded(table))].stack

----------------------------------------------------------------------------
(* Starting a hand, checked under SpecRounds *)

(* the blind the player at 0-based seat posts in the hand start_hand starts
   on t: the blind due at the seat, capped at the stack *)
BlindDue(t, seat) ==
    LET n == Len(t.players)
        dealer == (t.dealer_seat + 1) % n
    IN IF seat = (dealer + 1) % n THEN config.small_blind
       ELSE IF seat = (dealer + 2) % n THEN config.big_blind
       ELSE 0

BlindPosted(t, seat) == MinI(BlindDue(t, seat), GetP(t, seat).stack)

(* C20: start_hand succeeds only in Waiting or Settlement with at least two
   players; it adds 1 to hand_number, moves the dealer to the next seat,
   clears folded, all-in and bet_this_round of every player, posts the small
   blind at dealer + 1 and the big blind at dealer + 2, each capped at the
   stack with a short poster marked all-in, leaves the pot equal to the
   blinds posted and the phase at Dealing *)
StartHandPostsBlinds ==
    LET r == start_hand(table, ledger) IN
    r.ok =>
        /\ table.phase \in {"Waiting", "Settlement"}
        /\ Len(table.players) >= 2
        /\ LET n == Len(table.players) IN
           /\ r.table.hand_number = table.hand_number + 1
           /\ r.table.dealer_seat = (table.dealer_seat + 1) % n
           /\ r.table.phase = "Dealing"
           /\ r.table.pot = SumSeq([i \in 1..n |-> BlindPosted(table, i - 1)])
           /\ \A i \in 1..n :
                /\ ~r.table.players[i].folded
                /\ r.table.players[i].bet_this_round = BlindPosted(table, i - 1)
                /\ r.table.players[i].stack
                     = table.players[i].stack - BlindPosted(table, i - 1)
                /\ r.table.players[i].all_in
                     = (table.players[i].stack < BlindDue(table, i - 1))

(* a second hand has started from Settlement with a poster short of the blind *)
StartHandWitness ==
    /\ last.op = "start_hand"
    /\ table.hand_number = 2
    /\ table.phase = "Dealing"
    /\ \E i \in 1..Len(table.players) :
          /\ table.players[i].all_in
          /\ table.players[i].bet_this_round < config.big_blind

----------------------------------------------------------------------------
(* The settled showdown, checked under SpecOrch *)

(* a request_showdown is answered, not turned away by the rate limit, for a
   table whose session is at settlement *)
ShowdownAfterSettlement ==
    /\ response'.op = "request_showdown"
    /\ response'.code # 429
    /\ coord # NoSession
    /\ coord.phase = "settlement"

(* C21: once the session of a table is at settlement, every further
   request_showdown returns the recorded status, winner index, session id
   and tx hash and contacts neither a Worker nor the ledger *)
ShowdownIdempotent ==
    [][ ShowdownAfterSettlement =>
          /\ response'.code = 200
          /\ response'.status = (IF coord.showdown_result # -1 THEN "showdown_complete"
                                 ELSE "settled_timeout")
          /\ response'.winner_index = (IF coord.showdown_result # -1
                                       THEN coord.showdown_result ELSE 0)
          /\ response'.session_id = coord.showdown_session_id
          /\ response'.tx_hash = coord.showdown_tx_hash
          /\ coord' = coord
          /\ workers' = workers
          /\ attempts' = attempts
          /\ txs' = txs ]_vars

(* the second answer of a showdown that named player 1 the winner and was
   recorded on the ledger *)
ShowdownIdempotentWitness ==
    /\ response.op = "request_showdown"
    /\ response.stage = "cached"
    /\ response.status = "showdown_complete"
    /\ response.winner_index = 1
    /\ response.tx_hash # 0
    /\ response.session_id.label = "showdown"

----------------------------------------------------------------------------
(* Chips committed by an action, checked under Spec *)

ChipActions == {a \in ActionSet : a.kind \in {"Call", "Bet", "Raise", "AllIn"}}

(* the positions in the player sequence that hold the address *)
PositionsOf(t, player) == {i \in 1..Len(t.players) : t.players[i].address = player}

(* the action moved x chips of the player at position i to the player's bet
   and the pot and touched no other player's stack or bet *)
MovesChips(before, after, i, action) ==
    LET x == before.players[i].stack - after.players[i].stack IN
    /\ 0 <= x /\ x <= before.players[i].stack
    /\ after.players[i].bet_this_round = before.players[i].bet_this_round + x
    /\ after.pot = before.pot + x
    /\ action.kind = "Call" =>
          x = MinI(max_bet_this_round(before) - before.players[i].bet_this_round,
                   before.players[i].stack)
    /\ action.kind = "AllIn" => x = before.players[i].stack
    /\ after.players[i].stack = 0 => after.players[i].all_in
    /\ \A j \in 1..Len(before.players) \ {i} :
          /\ after.players[j].stack = before.players[j].stack
          /\ after.players[j].bet_this_round = before.players[j].bet_this_round

(* C22: every successful Call, Bet, Raise or AllIn takes x chips, 0 <= x <=
   stack, from the acting player's stack and adds x to that player's
   bet_this_round and to the pot (Call: the amount owed capped at the stack,
   AllIn: the whole stack), marks the player all-in when the stack is left at
   0, and changes no other player's stack or bet *)
ActionMovesChips ==
    \A player \in Addresses, action \in ChipActions :
        LET r == player_action(table, player, action, ledger) IN
        r.ok => \A i \in PositionsOf(table, player) :
                    MovesChips(table, r.table, i, action)

----------------------------------------------------------------------------
(* Leaving and joining, checked under Spec *)

BetweenHands(t) == t.phase \in {"Waiting", "Settlement"}

(* the step removed the entry at position i and paid its stack out *)
LeftFrom(i) ==
    /\ table' = [table EXCEPT !.players =
                    SubSeq(@, 1, i - 1) \o SubSeq(@, i + 1, Len(@))]
    /\ escrow' = escrow - table.players[i].stack

(* C23: leave_table succeeds only in Waiting or Settlement, and then pays
   the player the whole stack and removes the player from the table; in every
   other phase it fails with CannotLeaveDuringActiveHand and changes nothing *)
LeaveOnlyBetweenHands ==
    [][ /\ Len(table'.players) < Len(table.players) =>
              /\ BetweenHands(table)
              /\ \E i \in 1..Len(table.players) : LeftFrom(i)
        /\ ~BetweenHands(table) =>
              \A player \in Addresses :
                  LET r == leave_table(table, player) IN
                  /\ ~r.ok
                  /\ r.err = "CannotLeaveDuringActiveHand"
                  /\ stored(table, r) = table ]_vars

(* a player has left after a hand with more chips than the buy-in *)
LeaveWitness ==
    /\ last.op = "leave_table"
    /\ table.phase = "Settlement"
    /\ Len(table.players) = 2
    /\ escrow < 2 * config.min_buy_in

(* the conditions under which the table takes a new player *)
MayJoin(t, player, buy_in) ==
    /\ t.phase = "Waiting"
    /\ Len(t.players) < config.max_players
    /\ buy_in >= config.min_buy_in /\ buy_in <= config.max_buy_in
    /\ \A i \in 1..Len(t.players) : t.players[i].address # player

(* C24: join_table succeeds only in Waiting, with a free seat, a buy-in
   within [min_buy_in, max_buy_in] and an address that is not seated; it
   appends the player with the buy-in as stack at the new seat number, the
   length of the sequence before; a rejected call leaves the table unchanged *)
JoinAppendsPlayer ==
    \A player \in Addresses, buy_in \in BuyIns :
        LET r == join_table(table, player, buy_in) IN
        /\ r.ok <=> MayJoin(table, player, buy_in)
        /\ r.ok =>
              r.table = [table EXCEPT !.players =
                            Append(@, [address |-> player, stack |-> buy_in,
                                       bet_this_round |-> 0, folded |-> FALSE,
                                       all_in |-> FALSE,
                                       seat_index |-> Len(table.players)])]
        /\ ~r.ok => stored(table, r) = table

(* the table is full after a join, every further join is rejected *)
JoinWitness ==
    /\ last.op = "join_table"
    /\ Len(table.players) = config.max_players
    /\ table.phase = "Waiting"
    /\ escrow > config.max_players * config.min_buy_in

----------------------------------------------------------------------------
(* The category of a 7-card hand by the rules of poker, checked under SpecEval *)

CountOfRank(h, r) == Cardinality({i \in 1..7 : h[i] % NUM_RANKS = r})

(* the ranks of the straights: the wheel and the runs of five *)
StraightRuns == {{12, 0, 1, 2, 3}} \cup {r..(r + 4) : r \in 0..8}

HasStraight(h) == \E run \in StraightRuns : run \subseteq RanksOf(h)

RanksInSuit(h, s) == {h[i] % NUM_RANKS : i \in {k \in 1..7 : h[k] \div NUM_RANKS = s}}

HasFlush(h) == \E s \in 0..3 : Cardinality(RanksInSuit(h, s)) >= 5

HasStraightFlush(h) == \E s \in 0..3, run \in StraightRuns : run \subseteq RanksInSuit(h, s)

HasRoyalFlush(h) == \E s \in 0..3 : 8..12 \subseteq RanksInSuit(h, s)

BestCategory(h) ==
    LET of(n) == {r \in 0..12 : CountOfRank(h, r) >= n} IN
    IF HasRoyalFlush(h) THEN 9
    ELSE IF HasStraightFlush(h) THEN 8
    ELSE IF of(4) # {} THEN 7
    ELSE IF \E r \in of(3) : of(2) \ {r} # {} THEN 6
    ELSE IF HasFlush(h) THEN 5
    ELSE IF HasStraight(h) THEN 4
    ELSE IF of(3) # {} THEN 3
    ELSE IF Cardinality(of(2)) >= 2 THEN 2
    ELSE IF of(2) # {} THEN 1
    ELSE 0

(* C25: of two 7-card hands the one whose best five-card category is higher
   (high card < pair < two pair < three of a kind < straight < flush < full
   house < four of a kind < straight flush < royal flush) scores strictly
   higher under both evaluators *)
CategoryOrdersScores ==
    ranked.done /\ BestCategory(hands[1]) > BestCategory(hands[2]) =>
        /\ ranked.ledger[1] > ranked.ledger[2]
        /\ ranked.coordinator[1] > ranked.coordinator[2]

(* a straight flush was scored against four of a kind *)
CategoryOrdersWitness ==
    /\ ranked.done
    /\ BestCategory(hands[1]) = 8
    /\ BestCategory(hands[2]) = 7
    /\ ranked.coordinator[1] > ranked.coordinator[2]

----------------------------------------------------------------------------
(* Progress of a hand, checked under Spec *)

(* some action of some caller is accepted in the state *)
SomeActionSucceeds ==
    \E player \in Addresses, action \in ActionSet :
        player_action(table, player, action, ledger).ok

(* a claim_timeout made once the timeout window has passed is accepted and
   changes the table *)
TimeoutMovesTable ==
    LET r == claim_timeout(table, table.last_action_ledger + config.timeout_ledgers)
    IN r.ok /\ r.table # table

(* C26: in every reachable state of a betting phase the player to act has an
   action that succeeds or a claim_timeout after the window changes the
   table, so a started hand can always be carried on to Settlement *)
BettingCanProgress ==
    table.phase \in BettingPhases => SomeActionSucceeds \/ TimeoutMovesTable

----------------------------------------------------------------------------
(* Seat numbers, checked under Spec *)

(* C27: in every reachable table state the seat_index of each player is the
   player's position in the player sequence, so the seat indices are distinct
   and the seat resolved for an address is the entry holding the address *)
SeatIndexIsPosition ==
    /\ \A i \in 1..Len(table.players) : table.players[i].seat_index = i - 1
    /\ \A player \in Addresses :
          LET seat == find_player_seat(table, player) IN
          seat # -1 => /\ seat < NumPlayers(table)
                       /\ GetP(table, seat).address = player

(* C28 *)
InDealWorkflow(d) == deals[d].at \in {"prepare", "generate", "insert"}

DealsDoNotOverlap ==
    \A d1, d2 \in DealCalls : InDealWorkflow(d1) /\ InDealWorkflow(d2) => d1 = d2

PreparedShareSetsKept ==
    \A d \in DealCalls :
        deals[d].at = "generate" =>
            \A w \in Workers :
                /\ workers[w].contribution = deals[d].share_set_id
                /\ deals[d].share_set_id \in workers[w].pending_share_sets

(* C28: of the request_deal calls of a table that overlap in time at most one
   is in the deal workflow (past the phase check and not yet answered), and
   the contribution and the pending share-set every node prepared for a call
   are still in place when that call goes on to generate its proof. *)
OneDealAtATime == DealsDoNotOverlap /\ PreparedShareSetsKept

(* C29 *)
BettingMirror == coord # NoSession /\ coord.phase \in {"preflop", "flop", "turn", "river"}

EndedUnshown == table.phase = "Settlement" /\ BettingMirror

DealAccepted ==
    \E players \in MIN_PLAYERS..config.max_players, proof_ok \in BOOLEAN :
        deal_on_ledger(players, proof_ok).o.response.code # 409

MirrorMoves ==
    \/ \E phase \in {"flop", "turn", "river"}, proof_ok \in BOOLEAN :
           reveal_on_ledger(phase, proof_ok).o.coord.phase # coord.phase
    \/ \E proof_ok \in BOOLEAN : showdown_on_ledger(proof_ok).o.coord.phase # coord.phase

(* C29: when the hand has ended on the ledger by a fold or by a timeout while
   the session still mirrors a betting phase, request_deal is accepted or
   some request the orchestrator serves moves the session's phase: the
   mirror is never left where no request can change it. *)
MirrorNeverStuck == EndedUnshown => DealAccepted \/ MirrorMoves

(* C30 *)
RoundJustOpened ==
    /\ table.phase \in BettingPhases
    /\ last.ok /\ last.op \in {"commit_deal", "reveal_board"}

WaitingForTurn ==
    {i \in 0..(NumPlayers(table) - 1) :
        /\ i # table.current_turn
        /\ ~GetP(table, i).folded
        /\ ~GetP(table, i).all_in}

FirstActionTaken == last'.op = "player_action" /\ last'.ok

(* C30: the action of the first player to act in a betting round does not
   close the round while another player who has not folded and is not all-in
   still waits for a first turn in it (unless the action was a fold that
   left one player in the hand): the phase stays the round's phase. *)
EveryPlayerGetsATurn ==
    [][RoundJustOpened /\ FirstActionTaken /\ WaitingForTurn # {}
       /\ active_player_count(table') >= 2
       => table'.phase = table.phase]_vars

----------------------------------------------------------------------------
(* The showdown, checked under Spec *)

(* C31 *)
ActivePositions(t) == {i \in 1..Len(t.players) : ~t.players[i].folded}

(* the position of the k-th non-folded player *)
ActiveAt(t, k) ==
    CHOOSE i \in ActivePositions(t) :
        Cardinality({j \in ActivePositions(t) : j < i}) = k - 1

ShowdownScore(t, hole_cards, k) ==
    hand_rank(<<hole_cards[k][1], hole_cards[k][2]>> \o t.board_cards)

(* the first non-folded player, in seat order, holding the highest score *)
BestPosition(t, hole_cards) ==
    LET n == Cardinality(ActivePositions(t))
        best == MaxOf({ShowdownScore(t, hole_cards, k) : k \in 1..n})
        first == MinOf({k \in 1..n : ShowdownScore(t, hole_cards, k) = best})
    IN ActiveAt(t, first)

PotAwardedTo(t, u, w) ==
    /\ u.pot = 0
    /\ u.phase = "Settlement"
    /\ Len(u.players) = Len(t.players)
    /\ ~t.players[w].folded
    /\ \A i \in 1..Len(t.players) :
          u.players[i] = [t.players[i] EXCEPT
                             !.stack = IF i = w THEN @ + t.pot ELSE @]

ShowdownInputs(t) == [1..Cardinality(ActivePositions(t)) -> HolePairs]

(* C31: a successful submit_showdown in phase Showdown gives the whole pot to
   exactly one player, the first non-folded player in seat order holding the
   highest 7-card score, leaves every other player as it was, and sets the pot
   to 0 and the phase to Settlement; a folded player never receives the pot. *)
ShowdownAwardsBestHand ==
    table.phase = "Showdown" =>
        \A hole_cards \in ShowdownInputs(table) :
            LET r == submit_showdown(table, config.committee, hole_cards, TRUE, ledger)
            IN r.ok => PotAwardedTo(table, r.table, BestPosition(table, hole_cards))

----------------------------------------------------------------------------
(* The order of the session's phases, checked under SpecServed *)

(* C32 *)
MirrorOrder ==
    {<<"none", "preflop">>, <<"waiting", "preflop">>, <<"settlement", "preflop">>,
     <<"preflop", "flop">>, <<"flop", "turn">>, <<"turn", "river">>,
     <<"river", "settlement">>, <<"showdown", "settlement">>}

(* the step ran a prepare fan-out: the nodes were contacted *)
Fanned == attempts' # attempts

FannedFor == IF deals' # deals THEN "request_deal" ELSE response'.op

StartedInPhase ==
    CASE FannedFor = "request_deal" ->
            coord = NoSession \/ coord.phase \in {"waiting", "settlement"}
      [] FannedFor = "request_reveal" ->
            <<coord.phase, response'.phase>> \in
                {<<"preflop", "flop">>, <<"flop", "turn">>, <<"turn", "river">>}
      [] FannedFor = "request_showdown" -> coord.phase \in {"river", "showdown"}
      [] OTHER -> FALSE

ConflictTouchesNothing ==
    deals' = deals /\ response'.code = 409 =>
        workers' = workers /\ attempts' = attempts /\ coord' = coord

(* C32: a prepare fan-out to the nodes is run for a deal only while the table
   has no session or its session is at waiting or settlement, for a reveal
   only of the phase that follows the session's phase, for a showdown only at
   river or showdown; a request answered with a conflict contacts no node and
   changes nothing; and the session's phase changes only along preflop, flop,
   turn, river, settlement, preflop. *)
WorkflowsFollowPhase ==
    [][/\ Fanned => StartedInPhase
       /\ ConflictTouchesNothing
       /\ coord'.phase # coord.phase => <<coord.phase, coord'.phase>> \in MirrorOrder]_vars

----------------------------------------------------------------------------
(* dispatch-shares, checked under SpecDispatch *)

(* C33 *)
Pending(id) == id \in workers[0].pending_share_sets

(* call c was answered in this step *)
Answered(c, code) == dispatches[c].at # "idle" /\ dispatches'[c].at = "idle"
                     /\ dispatches'[c].code = code

(* call c asked for share-set id in this step *)
Asked(c, id) == dispatches[c].at = "idle" /\ dispatches'[c] # dispatches[c]
                /\ dispatches'[c].share_set_id = id

DispatchedOnce ==
    \A id \in ShareSets :
        /\ deliveries'[id].accepted <= 1
        /\ \A c \in DispatchCalls :
            \* answered OK: the fragments were delivered and the handle is gone
            /\ Answered(c, 200) /\ dispatches[c].share_set_id = id =>
                   deliveries[id].delivered >= 1 /\ ~Pending(id)'
            \* asked for after it was removed: unknown, nothing is sent
            /\ Asked(c, id) /\ ~Pending(id) =>
                   /\ dispatches'[c].at = "idle" /\ dispatches'[c].code = 400
                   /\ deliveries' = deliveries
            \* a failed delivery leaves the handle as it was
            /\ Answered(c, 502) /\ dispatches[c].share_set_id = id =>
                   Pending(id)' = Pending(id) /\ deliveries' = deliveries

(* C33: a share-set handle is dispatched at most once: at most one
   dispatch-shares call of the handle is answered OK, and it is answered OK
   only after the fragments were delivered to every peer, with the handle
   removed from the pending share-sets; a dispatch asked for after the removal
   is rejected as unknown and sends nothing; a call whose delivery fails
   leaves the handle pending. *)
ShareSetDispatchedOnce == [][DispatchedOnce]_vars

(* a handle was dispatched, removed, and asked for again *)
DispatchedOnceWitness ==
    \E id \in ShareSets, c \in DispatchCalls :
        /\ deliveries[id].accepted = 1
        /\ ~Pending(id)
        /\ dispatches[c] = [at |-> "idle", share_set_id |-> id, code |-> 400]

----------------------------------------------------------------------------
(* Failed attempts, checked under SpecOrch *)

(* C34 *)
FailedStages == {"auto_advance", "prepare", "dispatch", "generate", "parse", "submit"}

(* what the session records of the hand *)
Persisted(session) ==
    IF session = NoSession THEN <<"none">>
    ELSE <<session.phase, session.dealt_indices, session.board_indices,
           session.revealed_cards_by_phase, session.deal_tx_hash,
           session.reveal_tx_hashes, session.showdown_tx_hash,
           session.showdown_result>>

(* the session the request worked on: the one held, or the one restored from
   the ledger when none was held *)
FoundSessions ==
    IF coord # NoSession THEN {coord}
    ELSE {build_session_from_onchain_state(chain) :
              chain \in ChainAnswers \ {"unavailable", "unparseable"}}

AttemptFailed(op) ==
    /\ response'.op = op
    /\ response'.code >= 400
    /\ response'.stage \in FailedStages

(* C34: a reveal or showdown request that fails at the auto-advance, at
   prepare, dispatch, proof generation, parsing or at the ledger leaves the
   session's phase, dealt indices, board indices, revealed cards, recorded tx
   hashes and showdown result as the request found them, and a failed deal
   leaves the table without a session or with the session it had. *)
FailedAttemptPersistsNothing ==
    [][/\ AttemptFailed("request_deal") => coord' = coord
       /\ AttemptFailed("request_reveal") \/ AttemptFailed("request_showdown") =>
              \E found \in FoundSessions : Persisted(coord') = Persisted(found)]_vars

(* a reveal of a held session was rejected by the ledger after its proof *)
FailedAttemptWitness ==
    /\ response.op = "request_reveal"
    /\ response.code = 502
    /\ response.stage = "submit"
    /\ coord # NoSession
    /\ coord.proof_nonce > 0
    /\ coord.phase = "preflop"

(* C34 as stated: nothing of a failed reveal or showdown attempt is persisted,
   the session held before the request is the session held after it *)
FailedAttemptKeepsSession ==
    [][/\ coord # NoSession
       /\ AttemptFailed("request_reveal") \/ AttemptFailed("request_showdown")
       => coord' = coord]_vars

----------------------------------------------------------------------------
(* The proof wait, checked under SpecCollect *)

(* C35 *)
PollBound == IF collect.circuit_name = "showdown_valid" THEN 900 ELSE 300

Returned35 == collect.returned \notin {"idle", "polling"}

WaitStep ==
    /\ collect'.polls <= PollBound'
    \* a call that has returned sends nothing more
    /\ Returned35 => collect' = collect
    \* the time-out is returned after the last poll and not before
    /\ collect'.returned = "Err: timed out" =>
           collect.returned = "polling" /\ collect.polls = PollBound
    \* every other return of the wait is the return of a poll
    /\ collect'.returned \in {"Ok: proof", "Err: proof generation failed",
                              "Err: failed to poll node 0", "Err: failed to parse status",
                              "Err: proof fetch failed"} /\ ~Returned35 =>
           collect.returned = "polling" /\ collect'.polls = collect.polls + 1

(* C35: the proof wait terminates.  After generation was triggered node 0 is
   polled at most 300 times for deal and reveal and at most 900 times for
   showdown; the call returns at the first poll that reports complete (the
   proof, or an error when the proof cannot be fetched), at the first poll
   that reports a failed status (an error carrying the reason), at the first
   poll that is not answered or whose answer cannot be parsed (an error), and
   with a timed-out error after the last poll otherwise; a call that has
   returned polls no more. *)
ProofWaitTerminates == [][WaitStep]_vars /\ <>Returned35

(* the wait for a showdown proof timed out after its last poll *)
ProofWaitWitness ==
    /\ collect.circuit_name = "showdown_valid"
    /\ collect.polls = 900
    /\ collect.returned = "Err: timed out"

(* C35 as stated: the wait returns the proof, the error of a failed status,
   or a timed-out error *)
WaitEndsThreeWays ==
    Returned35 /\ collect.polls > 0 =>
        collect.returned \in {"Ok: proof", "Err: proof generation failed", "Err: timed out"}

----------------------------------------------------------------------------
(* Private card resolution, checked under SpecLookup *)

(* C36 *)
Image(k, p) == lookup.nodes[k + 1].permutation[p + 1]
SaltAt(k, p) == lookup.nodes[k + 1].salts[p + 1]

(* C36: for every requested deck position p the resolution over three
   Workers returns the card Worker 0's lookup gives for what Worker 1's lookup
   gives for what Worker 2's lookup gives for p, and the salt that is the sum
   of the three Workers' salts at p. *)
LookupChain ==
    lookup.asked /\ Len(lookup.nodes) = 3 =>
        /\ lookup.result.ok
        /\ Len(lookup.result.cards) = Len(lookup.card_positions)
        /\ Len(lookup.result.salts) = Len(lookup.card_positions)
        /\ \A i \in 1..Len(lookup.card_positions) :
              LET p == lookup.card_positions[i] IN
              /\ lookup.result.cards[i] = Image(0, Image(1, Image(2, p)))
              /\ lookup.result.salts[i] = SaltAt(0, p) + SaltAt(1, p) + SaltAt(2, p)

(* resolved where the reversed chain would give another card *)
LookupChainWitness ==
    /\ lookup.asked /\ lookup.result.ok
    /\ \E i \in 1..Len(lookup.card_positions) :
          LET p == lookup.card_positions[i] IN
          /\ lookup.result.cards[i] # Image(2, Image(1, Image(0, p)))
          /\ lookup.result.cards[i] # p

----------------------------------------------------------------------------
(* Betting rules, checked under SpecRounds *)

(* C37 *)
HighestBet == MaxOf({0} \cup {table.players[i].bet_this_round : i \in 1..Len(table.players)})

ActionAllowed(p, action) ==
    CASE action.kind = "Check" -> p.bet_this_round = HighestBet
      [] action.kind = "Call"  -> p.bet_this_round < HighestBet
      [] action.kind = "Bet"   -> /\ HighestBet = 0
                                  /\ config.big_blind <= action.amount
                                  /\ action.amount <= p.stack
      [] action.kind = "Raise" -> /\ action.amount >= config.big_blind
                                  /\ (HighestBet - p.bet_this_round) + action.amount <= p.stack
      [] OTHER -> TRUE

(* C37: whatever a seated address asks, player_action accepts a Check only
   from the player to act whose bet equals the highest bet of the round, a
   Call only when that player's bet is lower, a Bet(a) only when the highest
   bet is 0 and big_blind <= a <= stack, a Raise(a) only when a >= big_blind
   and the call plus a is within the stack; every other such action is
   rejected. *)
BettingActionsGuarded ==
    \A player \in Addresses, action \in ActionSet :
        player_action(table, player, action, ledger).ok =>
            LET seat == find_player_seat(table, player) IN
            /\ seat = table.current_turn
            /\ ActionAllowed(GetP(table, seat), action)

(* a raise was accepted, and the player to act now may call it but is refused
   every raise *)
BettingActionsWitness ==
    /\ last.op = "player_action" /\ last.ok /\ last.arg = "Raise"
    /\ table.phase \in BettingPhases
    /\ \E player \in Addresses, a \in 1..MaxAmount :
          /\ find_player_seat(table, player) = table.current_turn
          /\ ~player_action(table, player, [kind |-> "Raise", amount |-> a], ledger).ok
          /\ player_action(table, player, [kind |-> "Call", amount |-> 0], ledger).ok

----------------------------------------------------------------------------
(* The committee's entry points, checked under Spec *)

(* C38 *)
Entitled(committee, phases, proof_ok) ==
    /\ committee = config.committee
    /\ table.phase \in phases
    /\ proof_ok

Refused(r) == ~r.ok /\ stored(table, r) = table

(* C38: in every reachable state, a commit_deal, reveal_board or
   submit_showdown call that is not made by the table's committee, or not in
   the call's own phase (Dealing; DealingFlop, DealingTurn or DealingRiver;
   Showdown), or whose proof the verifier rejects, returns an error and leaves
   the stored table as it was. *)
CommitteeGated ==
    \A committee \in Callers, proof_ok \in BOOLEAN :
        /\ \A count \in {Len(table.players), Len(table.players) + 1} :
              Entitled(committee, {"Dealing"}, proof_ok)
              \/ Refused(commit_deal(table, committee, 1, [k \in 1..count |-> 2],
                                     DealtIndices(table), proof_ok, ledger))
        /\ \A count \in {1, 3} :
              Entitled(committee, {"DealingFlop", "DealingTurn", "DealingRiver"}, proof_ok)
              \/ Refused(reveal_board(table, committee, RevealCards(table, count),
                                      RevealIndices(table, count), proof_ok, ledger))
        /\ \A m \in {active_player_count(table), active_player_count(table) - 1} :
              m >= 0 =>
                \A hole_cards \in [1..m -> HolePairs] :
                    Entitled(committee, {"Showdown"}, proof_ok)
                    \/ Refused(submit_showdown(table, committee, hole_cards, proof_ok, ledger))

(* the three calls went through in one hand: the showdown was settled on a
   full board *)
CommitteeGatedWitness ==
    /\ last.op = "submit_showdown" /\ last.ok
    /\ table.phase = "Settlement"
    /\ Len(table.board_cards) = 5
    /\ table.deck_root # 0

----------------------------------------------------------------------------
(* The board reveal, checked under Spec *)

(* C39 *)
RevealCount == IF table.phase = "DealingFlop" THEN 3 ELSE 1

(* how many seats after the dealer the seats that can still act sit *)
StepsToActor ==
    {k \in 1..Len(table.players) :
        LET p == table.players[((table.dealer_seat + k) % Len(table.players)) + 1] IN
        ~p.folded /\ ~p.all_in}

Revealed(t, cards) ==
    /\ Len(cards) = RevealCount
    /\ t.board_cards = table.board_cards \o cards
    /\ \A i \in 1..Len(t.players) : t.players[i].bet_this_round = 0
    /\ IF StepsToActor # {}
       THEN /\ t.phase = (CASE table.phase = "DealingFlop"  -> "Flop"
                            [] table.phase = "DealingTurn"  -> "Turn"
                            [] table.phase = "DealingRiver" -> "River")
            /\ t.current_turn = (table.dealer_seat + MinOf(StepsToActor)) % Len(table.players)
       ELSE t.phase = (CASE table.phase = "DealingFlop"  -> "DealingTurn"
                         [] table.phase = "DealingTurn"  -> "DealingRiver"
                         [] table.phase = "DealingRiver" -> "Showdown")

(* C39: a reveal_board that succeeds appends exactly the revealed cards to
   the board (3 in DealingFlop, 1 in DealingTurn and DealingRiver), sets every
   player's bet_this_round to 0 and moves to Flop, Turn or River with
   current_turn on the first seat after the dealer that is neither folded nor
   all-in; with no such seat it moves on to the next dealing phase or to
   Showdown. *)
RevealOpensRound ==
    \A committee \in Callers, proof_ok \in BOOLEAN, count \in {1, 3} :
        LET cards == RevealCards(table, count)
            r == reveal_board(table, committee, cards, RevealIndices(table, count),
                              proof_ok, ledger)
        IN r.ok => Revealed(r.table, cards)

(* a reveal opened a round for a seat that is not the one next to the dealer *)
RevealOpensRoundWitness ==
    /\ last.op = "reveal_board" /\ last.ok
    /\ table.phase \in {"Flop", "Turn", "River"}
    /\ table.current_turn # (table.dealer_seat + 1) % Len(table.players)
    /\ \A i \in 1..Len(table.players) : table.players[i].bet_this_round = 0

(* a reveal found no seat that can act and moved on *)
RevealSkipsRound ==
    /\ last.op = "reveal_board" /\ last.ok
    /\ table.phase \in {"DealingTurn", "DealingRiver", "Showdown"}

----------------------------------------------------------------------------
(* Chip accounting, checked under SpecRounds (small_blind 1, big_blind 2) *)

(* C40 *)
ChipsNonNegative(t) ==
    /\ t.pot >= 0
    /\ \A i \in 1..Len(t.players) :
          t.players[i].stack >= 0 /\ t.players[i].bet_this_round >= 0

(* a betting action other than a fold moves `committed` chips from the seat
   it charges to the pot, and no more than that seat held *)
ActionWithinStack(t) ==
    LET seat == table.current_turn
        committed == t.pot - table.pot
    IN /\ 0 <= committed
       /\ committed <= GetP(table, seat).stack
       /\ GetP(t, seat).stack = GetP(table, seat).stack - committed
       /\ \A i \in 1..Len(table.players) :
             i # seat + 1 => t.players[i].stack = table.players[i].stack

(* the blinds posted by start_hand are the bets of the new round *)
BlindsWithinStack(t) ==
    /\ \A i \in 1..Len(table.players) :
          /\ t.players[i].bet_this_round <= table.players[i].stack
          /\ t.players[i].stack = table.players[i].stack - t.players[i].bet_this_round
    /\ t.pot - table.pot
         = SumSeq([i \in 1..Len(table.players) |-> t.players[i].bet_this_round])

(* C40: with positive blinds, in every reachable state every player's stack,
   every player's bet_this_round and the pot are non-negative, and neither the
   blinds posted by a start_hand nor the chips committed by a betting action
   exceed the stack the player held before. *)
ChipsStayWithinStacks ==
    /\ config.small_blind > 0 /\ config.big_blind > 0
    /\ ChipsNonNegative(table)
    /\ LET r == start_hand(table, ledger) IN
       r.ok => BlindsWithinStack(r.table) /\ ChipsNonNegative(r.table)
    /\ \A player \in Addresses, action \in ActionSet :
          LET r == player_action(table, player, action, ledger) IN
          r.ok => /\ ChipsNonNegative(r.table)
                  /\ action.kind # "Fold" => ActionWithinStack(r.table)

(* a hand was started by a player too short for the blind due, who posted the
   whole stack *)
ChipsStayWithinStacksWitness ==
    /\ last.op = "start_hand" /\ last.ok
    /\ table.phase = "Dealing"
    /\ \E i \in 1..Len(table.players) :
          /\ table.players[i].all_in
          /\ table.players[i].stack = 0
          /\ table.players[i].bet_this_round > 0
          /\ table.players[i].bet_this_round < config.big_blind

====
